---------------------------- MODULE Spec2Model ----------------------------
(***************************************************************************)
(* PromptShell: the command-safety pipeline of AITerminalAssistant         *)
(* (ai_terminal_assistant.py), the alias table (alias_manager.py) and the  *)
(* input loop (main.py), as a state machine.                               *)
(*                                                                         *)
(* Python strings are TLA+ strings; TLC evaluates Len, SubSeq, Head, Tail  *)
(* and \o on them, so slicing, stripping and prefix tests are computed     *)
(* character by character as the interpreter computes them.                *)
(*                                                                         *)
(* The program is single-threaded.  Every action is one synchronous run of *)
(* the code between two points where it waits on its environment: a line   *)
(* typed by the user, an answer to a questionary prompt, a reply of the    *)
(* language model (Node.__call__), the end of a subprocess.  What the      *)
(* environment supplies is drawn from the small sets defined below.        *)
(* The POSIX branch of the executor is the one modelled.                   *)
(***************************************************************************)
EXTENDS Integers, Sequences, FiniteSets, TLC

VARIABLES
    pc,               \* where the session is waiting
    user_input,       \* execute_command's parameter user_input
    command,          \* execute_command's local `command`
    commandBound,     \* whether that local has been assigned in this frame
    error_analysis,   \* handle_error's local: the suggested command
    command_history,  \* AITerminalAssistant.command_history
    cwd,              \* the process working directory (os.getcwd())
    result,           \* the value execute_command returned to main (printed)
    log,              \* spy: what happened while the current line was processed
    depth,            \* nesting of execute_command calls made by handle_error
    nInputs,          \* lines read by the input loop so far
    accepted,         \* spy: every command appended to command_history, in order
    line,             \* spy: the line main read last
    aliases,          \* AliasManager.aliases: name -> alias record
    aliasFile,        \* the persisted alias document (ALIAS_FILE)
    clock,            \* datetime.now(), as a counter
    nCalls,           \* AliasManager calls made so far
    lastCall,         \* spy: the last AliasManager call, its result and pre-state
    files,            \* the files import_aliases and export_aliases open
    historyFile,      \* the persisted history (HISTORY_FILE): its lines, or absent
    appended,         \* spy: every record append_history was asked to append
    config,           \* the config dict handed to migrate_config_keys
    keyring,          \* the passwords stored in the keyring: provider -> key
    migration,        \* spy: the last migrate_config_keys call and its result
    atEntry           \* spy: the process state when execute_command was entered

wfVars == <<pc, user_input, command, commandBound, error_analysis,
            command_history, cwd, result, log, depth, nInputs, accepted, line,
            atEntry>>
alVars == <<aliases, aliasFile, clock, nCalls, lastCall, files>>
histVars == <<historyFile, appended>>
secVars == <<config, keyring, migration>>
envVars == <<alVars, histVars, secVars>>
vars == <<pc, user_input, command, commandBound, error_analysis,
          command_history, cwd, result, log, depth, nInputs, accepted, line,
          aliases, aliasFile, clock, nCalls, lastCall, files,
          historyFile, appended, config, keyring, migration, atEntry>>

---------------------------------------------------------------------------
(* Bounds of the model *)

\* lines the input loop reads in one explored session
MaxInputs == 2
\* nested execute_command calls through handle_error that are explored
MaxDepth == 2
\* lines read in the history specification (more than the history cap)
HistInputs == 15
\* AliasManager calls explored in the alias specification
MaxCalls == 3

---------------------------------------------------------------------------
(* Python string operations *)

\* s[i] for a 1-based position
Char(s, i) == SubSeq(s, i, i)

\* str.isspace for one character of the modelled alphabet
IsSpace(c) == c \in {" ", "\t", "\n"}

RECURSIVE LStrip(_)
\* str.lstrip()
LStrip(s) == IF Len(s) > 0 /\ IsSpace(Head(s)) THEN LStrip(Tail(s)) ELSE s

RECURSIVE RStrip(_)
\* str.rstrip()
RStrip(s) ==
    IF Len(s) > 0 /\ IsSpace(Char(s, Len(s)))
    THEN RStrip(SubSeq(s, 1, Len(s) - 1))
    ELSE s

\* str.strip()
Strip(s) == RStrip(LStrip(s))

\* s.startswith(p)
StartsWith(s, p) == Len(s) >= Len(p) /\ SubSeq(s, 1, Len(p)) = p

\* s.endswith(p)
EndsWith(s, p) == Len(s) >= Len(p) /\ SubSeq(s, Len(s) - Len(p) + 1, Len(s)) = p

\* s[n:]
SliceFrom(s, n) == SubSeq(s, n + 1, Len(s))

\* sub in s
Contains(s, sub) ==
    \E i \in 0..(Len(s) - Len(sub)) : SubSeq(s, i + 1, i + Len(sub)) = sub

UpperCase == "ABCDEFGHIJKLMNOPQRSTUVWXYZ"
LowerCase == "abcdefghijklmnopqrstuvwxyz"

\* str.lower() of one character
LowerChar(c) ==
    IF \E i \in 1..26 : Char(UpperCase, i) = c
    THEN Char(LowerCase, CHOOSE i \in 1..26 : Char(UpperCase, i) = c)
    ELSE c

RECURSIVE Lower(_)
\* str.lower()
Lower(s) == IF Len(s) = 0 THEN s ELSE LowerChar(Head(s)) \o Lower(Tail(s))

\* the index of the first character of s that satisfies isspace, or 0
FirstSpace(s) ==
    IF \E i \in 1..Len(s) : IsSpace(Char(s, i))
    THEN CHOOSE i \in 1..Len(s) :
            IsSpace(Char(s, i)) /\ \A j \in 1..(i - 1) : ~IsSpace(Char(s, j))
    ELSE 0

\* the index of the first occurrence of the one-character string c in s, or 0
IndexOf(s, c) ==
    IF \E i \in 1..Len(s) : Char(s, i) = c
    THEN CHOOSE i \in 1..Len(s) :
            Char(s, i) = c /\ \A j \in 1..(i - 1) : Char(s, j) # c
    ELSE 0

\* s.split(" ", 1)[1] for an s that contains a space
AfterFirstBlank(s) == SliceFrom(s, IndexOf(s, " "))

---------------------------------------------------------------------------
(* The environment: file system, language model, subprocesses *)

\* the directories that exist
Dirs == {"/", "/tmp", "/home", "/home/u"}

\* os.path.expanduser("~")
Home == "/home/u"

\* os.path.expanduser(path)
ExpandUser(path) ==
    IF path = "~" THEN Home
    ELSE IF StartsWith(path, "~/") THEN Home \o SliceFrom(path, 1)
    ELSE path

\* the index of the last "/" of an absolute path
LastSlash(d) == CHOOSE i \in 1..Len(d) :
    Char(d, i) = "/" /\ \A j \in (i + 1)..Len(d) : Char(d, j) # "/"

\* the parent directory of an absolute path
Parent(d) == IF LastSlash(d) = 1 THEN "/" ELSE SubSeq(d, 1, LastSlash(d) - 1)

\* the directory os.chdir(path) names when the process is in directory w
Resolve(w, path) ==
    IF StartsWith(path, "/") THEN path
    ELSE IF path = ".." THEN Parent(w)
    ELSE IF path = "." THEN w
    ELSE IF w = "/" THEN "/" \o path
    ELSE w \o "/" \o path

\* os.chdir(path) succeeds exactly when the directory exists
ChdirOk(w, path) == Resolve(w, path) \in Dirs

\* str(e) of the exception os.chdir raises
ChdirError == "No such file or directory"

\* the files of the working directory whose open(...).read() succeeds, and fails
ReadableFiles == {"notes.txt"}
UnreadableFiles == {"secret.bin"}

\* gather_additional_data's file_keywords
file_keywords == {"file", "content", "read", "merge"}

RECURSIVE Words(_)
\* str.split()
Words(s) ==
    LET t == LStrip(s)
    IN  IF Len(t) = 0 THEN <<>>
        ELSE IF FirstSpace(t) = 0 THEN <<t>>
        ELSE <<SubSeq(t, 1, FirstSpace(t) - 1)>> \o Words(SliceFrom(t, FirstSpace(t)))

\* gather_additional_data(u) raises: a file keyword occurs in the input and the
\* first word that names a file names one that cannot be read
GatherRaises(u) ==
    /\ \E k \in file_keywords : Contains(Lower(u), k)
    /\ \E i \in 1..Len(Words(u)) :
           /\ Words(u)[i] \in UnreadableFiles
           /\ \A j \in 1..(i - 1) :
                  Words(u)[j] \notin ReadableFiles \cup UnreadableFiles

RECURSIVE shlex_scan(_, _, _, _, _, _)
\* shlex.split in POSIX mode from position i of s on: state is "none" outside
\* quotes, "single" or "double" inside them; cur is the token being read (if
\* inTok), toks the tokens read.  The result is the token list, or the message
\* of the ValueError raised.
shlex_scan(s, i, state, cur, inTok, toks) ==
    IF i > Len(s)
    THEN IF state # "none"
         THEN [err |-> "No closing quotation", tokens |-> <<>>]
         ELSE [err |-> "", tokens |-> IF inTok THEN Append(toks, cur) ELSE toks]
    ELSE IF state = "none"
    THEN IF IsSpace(Char(s, i))
         THEN shlex_scan(s, i + 1, "none", "", FALSE,
                         IF inTok THEN Append(toks, cur) ELSE toks)
         ELSE IF Char(s, i) = "\\"
         THEN IF i = Len(s)
              THEN [err |-> "No escaped character", tokens |-> <<>>]
              ELSE shlex_scan(s, i + 2, "none", cur \o Char(s, i + 1), TRUE, toks)
         ELSE IF Char(s, i) = "'"
         THEN shlex_scan(s, i + 1, "single", cur, TRUE, toks)
         ELSE IF Char(s, i) = "\""
         THEN shlex_scan(s, i + 1, "double", cur, TRUE, toks)
         ELSE shlex_scan(s, i + 1, "none", cur \o Char(s, i), TRUE, toks)
    ELSE IF state = "single"
    THEN IF Char(s, i) = "'"
         THEN shlex_scan(s, i + 1, "none", cur, TRUE, toks)
         ELSE shlex_scan(s, i + 1, "single", cur \o Char(s, i), TRUE, toks)
    ELSE IF Char(s, i) = "\""
         THEN shlex_scan(s, i + 1, "none", cur, TRUE, toks)
         ELSE IF Char(s, i) = "\\"
         THEN IF i = Len(s)
              THEN [err |-> "No escaped character", tokens |-> <<>>]
              ELSE IF Char(s, i + 1) \in {"\"", "\\"}
              THEN shlex_scan(s, i + 2, "double", cur \o Char(s, i + 1), TRUE, toks)
              ELSE shlex_scan(s, i + 2, "double",
                              cur \o Char(s, i) \o Char(s, i + 1), TRUE, toks)
         ELSE shlex_scan(s, i + 1, "double", cur \o Char(s, i), TRUE, toks)

\* shlex.split(s)
shlex_split(s) == shlex_scan(s, 1, "none", "", FALSE, <<>>)

\* the fixed interactive-program list of execute_command_with_live_output
interactive_commands ==
    {"vim", "vi", "nano", "emacs", "ssh", "telnet", "top", "htop",
     "man", "less", "more", "mysql", "psql", "nmtui", "crontab",
     "passwd", "sudo", "su", "gdb", "screen", "tmux", "nano", "picocom",
     "powershell", "cmd", "ftp", "sftp", "taskmgr", "notepad", "regedit"}

\* is_interactive: any(command.strip().startswith(cmd) for cmd in interactive_commands)
is_interactive(c) == \E p \in interactive_commands : StartsWith(Strip(c), p)

\* what the subprocess call of a branch can come back with: the process ran
\* and ended with (stderr, returncode), or the call raised an exception with
\* message err (code is then without meaning)
Ran(stderr, returncode) == [raised |-> FALSE, err |-> stderr, code |-> returncode]
Raised(message) == [raised |-> TRUE, err |-> message, code |-> 0]

\* str(e) of a failure to start the program (FileNotFoundError, PermissionError)
SpawnError == "spawn failed"
BatchOutcomes == {Ran("", 0), Ran("boom", 2), Raised(SpawnError)}
InteractiveOutcomes == {Ran("", 0), Ran("", 130), Raised(SpawnError)}

\* the outcomes of the subprocess call for command c: shlex.split raises on a
\* command it cannot tokenise, and an empty argument list cannot be started
ExecOutcomes(c) ==
    IF shlex_split(c).err # "" THEN {Raised(shlex_split(c).err)}
    ELSE IF shlex_split(c).tokens = <<>> THEN {Raised("list index out of range")}
    ELSE IF is_interactive(c) THEN InteractiveOutcomes ELSE BatchOutcomes

\* an Executor whose except clauses report the failure with the code it found
ExecutorResult_KeepsCode(r) == [err |-> r.err, code |-> r.code]

\* what execute_command_with_live_output returns as (stderr, exit code): the
\* except clauses of both branches return ("", str(e), 1)
ExecutorResult(r) ==
    IF r.raised THEN [err |-> r.err, code |-> 1] ELSE [err |-> r.err, code |-> r.code]

---------------------------------------------------------------------------
(* Results and the spy log *)

\* the value execute_command returns: what kind of message, and its variable part
Res(k, t) == [kind |-> k, text |-> t]

\* one entry of the spy log
Ev(e, t, o, c, r) ==
    [ev |-> e, text |-> t, ok |-> o, code |-> c, err |-> r, raised |-> FALSE]

\* the spy entry of a return of the Executor: what it returned for command c on
\* branch i (o.err, o.code), and whether the subprocess call had raised
EvReturn(c, i, o, x) ==
    [ev |-> "exec_return", text |-> c, ok |-> i, code |-> o.code, err |-> o.err,
     raised |-> x]

\* the in-memory history cap of execute_command and run_direct_command
HistoryCap == 10

\* command_history.append(c) without the eviction
AppendHistoryNoEvict(h, c) == Append(h, c)

\* command_history.append(c); if len(command_history) > 10: command_history.pop(0)
AppendHistory(h, c) ==
    LET h1 == Append(h, c)
    IN  IF Len(h1) > HistoryCap THEN Tail(h1) ELSE h1

\* the assignments every step of the assistant makes
Goto(p, c, b, h, acc, w, r, l) ==
    /\ pc' = p
    /\ command' = c
    /\ commandBound' = b
    /\ command_history' = h
    /\ accepted' = acc
    /\ cwd' = w
    /\ result' = r
    /\ log' = l

---------------------------------------------------------------------------
(* Records of the model: alias records, documents, the spy of calls *)

\* an alias record as add_alias builds it
AliasRecord(c, d, t1, t2) ==
    [command |-> c, description |-> d, created_at |-> t1, updated_at |-> t2]

\* the empty alias table
EmptyTable == [n \in {} |-> AliasRecord("", "", 0, 0)]

\* the spy record of an AliasManager call: its arguments, what it returned and
\* the table and document it found
Call(o, n, c, k, m, al, f) ==
    [op |-> o, name |-> n, command |-> c, ok |-> k, msg |-> m,
     preAliases |-> al, preFile |-> f]

NoCall == Call("none", "", "", TRUE, "", EmptyTable, EmptyTable)

\* a file that does not exist
NoFile == [kind |-> "absent", entries |-> <<>>]

\* the paths import_aliases and export_aliases can open, none of them existing
FilePaths == {"/tmp/a.json", "/home/u/a.json"}
NoFiles == [p \in FilePaths |-> NoFile]

\* HISTORY_FILE does not exist
NoHistoryFile == [exists |-> FALSE, lines |-> <<>>]

\* execute_command has not been entered yet
NoEntry == [at |-> 0, command_history |-> <<>>, cwd |-> "", aliases |-> EmptyTable]

\* a config without entries, an empty keyring, and no migration made yet
EmptyConfig == [k \in {} |-> ""]
EmptyKeyring == [p \in {} |-> ""]
NoMigration == [done |-> FALSE, pre |-> EmptyConfig, failing |-> {}, returned |-> FALSE]

\* the alias table load_aliases found at start-up
LoadedAliases == [n \in {"ll"} |-> AliasRecord("ls -l", "", 0, 0)]

---------------------------------------------------------------------------
(* AliasManager *)

\* AliasManager.blacklist
blacklist == {"rm -rf /", "chmod -R 777 /", ":(){:|:&};:", "mkfs", "dd if=/dev/random"}

\* input_command.strip().split(maxsplit=1): the first token
FirstToken(s) ==
    LET t == Strip(s)
    IN  IF FirstSpace(t) = 0 THEN t ELSE SubSeq(t, 1, FirstSpace(t) - 1)

\* input_command.strip().split(maxsplit=1): the remainder, or "" when there is none
RestAfterFirstToken(s) ==
    LET t == Strip(s)
    IN  IF FirstSpace(t) = 0 THEN "" ELSE LStrip(SliceFrom(t, FirstSpace(t)))

RECURSIVE expand_alias_Recursive(_, _)
\* expand_alias that expands its result until the first token is no alias
expand_alias_Recursive(al, input_command) ==
    IF Strip(input_command) = "" THEN input_command
    ELSE IF FirstToken(input_command) \in DOMAIN al
         THEN expand_alias_Recursive(al,
                  Strip(al[FirstToken(input_command)].command \o " "
                        \o RestAfterFirstToken(input_command)))
         ELSE input_command

\* expand_alias that trims an input it does not expand
expand_alias_Trimming(al, input_command) ==
    IF Strip(input_command) = "" THEN Strip(input_command)
    ELSE IF FirstToken(input_command) \in DOMAIN al
         THEN Strip(al[FirstToken(input_command)].command \o " "
                    \o RestAfterFirstToken(input_command))
         ELSE Strip(input_command)

\* expand_alias raises KeyError: the first token names an alias whose record
\* has no command (line 200)
ExpandRaises(al, input_command) ==
    /\ Strip(input_command) # ""
    /\ FirstToken(input_command) \in DOMAIN al
    /\ "command" \notin DOMAIN al[FirstToken(input_command)]

\* AliasManager.expand_alias on table al, for an alias record that has a command
expand_alias(al, input_command) ==
    IF Strip(input_command) = "" THEN input_command
    ELSE IF FirstToken(input_command) \in DOMAIN al
         THEN Strip(al[FirstToken(input_command)].command \o " "
                    \o RestAfterFirstToken(input_command))
         ELSE input_command

---------------------------------------------------------------------------
(* AliasManager: add_alias and remove_alias *)

Digits == "0123456789"

\* [a-zA-Z_]
IsNameStart(c) ==
    \/ c = "_"
    \/ \E i \in 1..26 : Char(UpperCase, i) = c \/ Char(LowerCase, i) = c

\* \w, for the ASCII characters
IsWordChar(c) == IsNameStart(c) \/ \E i \in 1..10 : Char(Digits, i) = c

\* validate_alias_name without the test of the first character
validate_alias_name_AnyStart(name) ==
    LET body == IF EndsWith(name, "\n") THEN SubSeq(name, 1, Len(name) - 1) ELSE name
    IN  Len(body) >= 1 /\ \A i \in 1..Len(body) : IsWordChar(Char(body, i))

\* validate_alias_name: re.match(r'^[a-zA-Z_]\w*$', name) is not None
\* (Python's $ also matches just before one trailing newline)
validate_alias_name(name) ==
    LET body == IF EndsWith(name, "\n") THEN SubSeq(name, 1, Len(name) - 1) ELSE name
    IN  /\ Len(body) >= 1
        /\ IsNameStart(Char(body, 1))
        /\ \A i \in 2..Len(body) : IsWordChar(Char(body, i))

\* validate_command: no entry of the blacklist is a substring of the command
validate_command(c) == \A dangerous \in blacklist : ~Contains(c, dangerous)

\* the messages add_alias and remove_alias return
ErrInvalidName == "Invalid alias name: Name must be alphanumeric with underscores"
ErrInvalidCommand == "Invalid Command: Contains dangerous patterns"
ErrDuplicate == "Duplicate alias name: Alias already exists"
ErrNotFound == "Alias not found"

\* self.aliases[name] = rec
Put(al, name, rec) ==
    [n \in DOMAIN al \cup {name} |-> IF n = name THEN rec ELSE al[n]]

\* del self.aliases[name]
Del(al, name) == [n \in DOMAIN al \ {name} |-> al[n]]

\* the checks of add_alias with the duplicate test first
AddAliasVerdict_DuplicateFirst(al, name, c) ==
    IF name \in DOMAIN al THEN ErrDuplicate
    ELSE IF ~validate_alias_name(name) THEN ErrInvalidName
    ELSE IF ~validate_command(c) THEN ErrInvalidCommand
    ELSE "added"

\* the checks of add_alias, in the order of lines 83-90
AddAliasVerdict(al, name, c) ==
    IF ~validate_alias_name(name) THEN ErrInvalidName
    ELSE IF ~validate_command(c) THEN ErrInvalidCommand
    ELSE IF name \in DOMAIN al THEN ErrDuplicate
    ELSE "added"

\* a call of the AliasManager method whose effect is `effect`, made directly
ManagerCall(effect) ==
    /\ nCalls' = nCalls + 1
    /\ effect
    /\ UNCHANGED <<histVars, secVars, wfVars>>

\* add_alias(name, c, d); t2 is the second reading of datetime.now()
add_alias(name, c, d, t2) ==
    /\ UNCHANGED files
    /\ LET verdict == AddAliasVerdict(aliases, name, c)
           added == Put(aliases, name, AliasRecord(c, d, clock, t2))
       IN  IF verdict = "added"
           THEN /\ aliases' = added
                /\ aliasFile' = added
                /\ clock' = t2
                /\ lastCall' = Call("add_alias", name, c, TRUE, "added",
                                    aliases, aliasFile)
           ELSE /\ UNCHANGED <<aliases, aliasFile, clock>>
                /\ lastCall' = Call("add_alias", name, c, FALSE, verdict,
                                    aliases, aliasFile)

\* remove_alias(name)
remove_alias(name) ==
    /\ UNCHANGED <<clock, files>>
    /\ IF name \notin DOMAIN aliases
       THEN /\ UNCHANGED <<aliases, aliasFile>>
            /\ lastCall' = Call("remove_alias", name, "", FALSE, ErrNotFound,
                                aliases, aliasFile)
       ELSE /\ aliases' = Del(aliases, name)
            /\ aliasFile' = Del(aliases, name)
            /\ lastCall' = Call("remove_alias", name, "", TRUE, "removed",
                                aliases, aliasFile)

---------------------------------------------------------------------------
(* AliasManager: import_aliases and export_aliases *)

\* the JSON values an entry of an alias document can have: an object, whose
\* members are the fields of the record r, or a string
JObject(r) == [t |-> "object", v |-> r]
JString(x) == [t |-> "string", v |-> [text |-> x]]

\* one member of the "aliases" object of a document
Entry(n, val) == [name |-> n, value |-> val]

\* a file holding a JSON document whose "aliases" object has the members q, in
\* the order of the file
JsonDoc(q) == [kind |-> "json", entries |-> q]

\* a file that json.load cannot parse
NotJson == [kind |-> "text", entries |-> <<>>]

RECURSIVE Enumerate(_)
\* the keys of a dict, one after the other
Enumerate(S) ==
    IF S = {} THEN <<>>
    ELSE LET x == CHOOSE y \in S : TRUE IN <<x>> \o Enumerate(S \ {x})

\* json.dump({'aliases': al}, f, indent=2) without the descriptions
DumpAliases_NoDescription(al) ==
    JsonDoc([i \in 1..Cardinality(DOMAIN al) |->
                Entry(Enumerate(DOMAIN al)[i],
                      JObject([al[Enumerate(DOMAIN al)[i]]
                                  EXCEPT !.description = ""]))])

\* json.dump({'aliases': al}, f, indent=2): every alias becomes a member whose
\* value is the object holding the fields of its record
DumpAliases(al) ==
    JsonDoc([i \in 1..Cardinality(DOMAIN al) |->
                Entry(Enumerate(DOMAIN al)[i], JObject(al[Enumerate(DOMAIN al)[i]]))])

\* alias_data.get('command', '')
GetCommand(r) == IF "command" \in DOMAIN r THEN r.command ELSE ""

\* an import loop that inserts every entry that is an object
ImportEntry_NoValidation(st, e) ==
    IF st.raised THEN st
    ELSE IF e.value.t # "object" THEN [table |-> st.table, raised |-> TRUE]
    ELSE [table |-> Put(st.table, e.name, e.value.v), raised |-> FALSE]

\* one iteration of the loop of import_aliases (lines 153-155); alias_data.get
\* raises AttributeError when alias_data is not an object, which ends the loop
ImportEntry(st, e) ==
    IF st.raised THEN st
    ELSE IF e.value.t # "object" THEN [table |-> st.table, raised |-> TRUE]
    ELSE IF validate_alias_name(e.name) /\ validate_command(GetCommand(e.value.v))
    THEN [table |-> Put(st.table, e.name, e.value.v), raised |-> FALSE]
    ELSE st

RECURSIVE ImportLoop(_, _)
\* the loop of import_aliases over the members q, started in state st
ImportLoop(st, q) ==
    IF q = <<>> THEN st ELSE ImportLoop(ImportEntry(st, Head(q)), Tail(q))

\* the messages import_aliases and export_aliases return
ErrImportNotFound == "Import error: File not found."
ErrInvalidJson == "Invalid JSON: Incorrect JSON format in alias file"
ErrImportFailed == "Import error: Failed to import aliases"
ErrExportFailed == "Export failed"

\* the file open(path) reads
FileAt(path) == IF path \in DOMAIN files THEN files[path] ELSE NoFile

\* import_aliases(file_path)
import_aliases(file_path) ==
    /\ UNCHANGED <<clock, files>>
    /\ LET doc  == FileAt(ExpandUser(file_path))
           done == ImportLoop([table |-> aliases, raised |-> FALSE], doc.entries)
       IN  IF doc.kind = "absent"
           THEN /\ UNCHANGED <<aliases, aliasFile>>
                /\ lastCall' = Call("import_aliases", file_path, "", FALSE,
                                    ErrImportNotFound, aliases, aliasFile)
           ELSE IF doc.kind = "text"
           THEN /\ UNCHANGED <<aliases, aliasFile>>
                /\ lastCall' = Call("import_aliases", file_path, "", FALSE,
                                    ErrInvalidJson, aliases, aliasFile)
           ELSE IF done.raised
           THEN /\ aliases' = done.table
                /\ UNCHANGED aliasFile
                /\ lastCall' = Call("import_aliases", file_path, "", FALSE,
                                    ErrImportFailed, aliases, aliasFile)
           ELSE /\ aliases' = done.table
                /\ aliasFile' = done.table
                /\ lastCall' = Call("import_aliases", file_path, "", TRUE,
                                    "imported", aliases, aliasFile)

\* export_aliases(file_path): the path is opened as it is given; a path in a
\* directory that does not exist cannot be opened for writing
export_aliases(file_path) ==
    /\ UNCHANGED <<aliases, aliasFile, clock>>
    /\ IF file_path \in DOMAIN files
       THEN /\ files' = [files EXCEPT ![file_path] = DumpAliases(aliases)]
            /\ lastCall' = Call("export_aliases", file_path, "", TRUE,
                                "exported", aliases, aliasFile)
       ELSE /\ UNCHANGED files
            /\ lastCall' = Call("export_aliases", file_path, "", FALSE,
                                ErrExportFailed, aliases, aliasFile)

---------------------------------------------------------------------------
(* AliasManager: expand_alias as a call *)

\* a call of expand_alias(input_command); the spy records the input as name and
\* the returned string as msg
expand_call(input_command) ==
    /\ lastCall' = Call("expand_alias", input_command, "", TRUE,
                        expand_alias(aliases, input_command), aliases, aliasFile)
    /\ UNCHANGED <<aliases, aliasFile, clock, files>>

---------------------------------------------------------------------------
(* alias_manager.handle_alias_command *)

RECURSIVE JoinBlank(_)
\* " ".join(q)
JoinBlank(q) ==
    IF q = <<>> THEN ""
    ELSE IF Len(q) = 1 THEN q[1]
    ELSE q[1] \o " " \o JoinBlank(Tail(q))

\* the branch made no call that changes the manager or a file
NoManagerCall == UNCHANGED <<aliases, aliasFile, clock, files, lastCall>>

\* `alias list [name]` (lines 232-239): reading alias['command'] of a record
\* that has no command raises KeyError, which the except clause reports
ListRaises(parts) ==
    IF Len(parts) >= 3
    THEN parts[3] \in DOMAIN aliases /\ "command" \notin DOMAIN aliases[parts[3]]
    ELSE \E n \in DOMAIN aliases : "command" \notin DOMAIN aliases[n]

\* handle_alias_command(u, alias_manager): the call it makes and the message it
\* returns, which main prints; t2 is the second reading of the clock in add_alias
handle_alias_command(u, t2) ==
    LET sh    == shlex_split(u)
        parts == sh.tokens
        n     == Len(parts)
        sub   == IF n >= 2 THEN Lower(parts[2]) ELSE ""
    IN  IF sh.err # ""
        THEN NoManagerCall /\ result' = Res("alias_error", sh.err)
        ELSE IF n < 2
        THEN NoManagerCall /\ result' = Res("alias_usage", "")
        ELSE IF sub = "add" /\ n >= 4
        THEN /\ add_alias(parts[3], JoinBlank(SubSeq(parts, 4, n)), "", t2)
             /\ result' = Res("alias_message", lastCall'.msg)
        ELSE IF sub = "remove" /\ n >= 3
        THEN /\ remove_alias(parts[3])
             /\ result' = Res("alias_message", lastCall'.msg)
        ELSE IF sub = "list"
        THEN /\ NoManagerCall
             /\ result' = IF ListRaises(parts) THEN Res("alias_error", "'command'")
                          ELSE Res("alias_list", "")
        ELSE IF sub = "import" /\ n >= 3
        THEN /\ import_aliases(parts[3])
             /\ result' = Res("alias_message", lastCall'.msg)
        ELSE IF sub = "export" /\ n >= 3
        THEN /\ export_aliases(parts[3])
             /\ result' = Res("alias_message", lastCall'.msg)
        ELSE IF sub = "help"
        THEN NoManagerCall /\ result' = Res("alias_help", "")
        ELSE NoManagerCall /\ result' = Res("alias_invalid", "")

---------------------------------------------------------------------------
(* history_manager: the persisted history *)

\* the cap of the history file
MAX_HISTORY == 100

\* a line of the history file that json.loads parses to value v, and a line it
\* cannot parse
JsonLine(v) == [kind |-> "json", value |-> v]
BrokenLine == [kind |-> "text", value |-> <<>>]

\* the record append_history builds (lines 11-15)
HistoryEntry(t, natural_language, shell_command) ==
    [timestamp |-> t, natural_language |-> natural_language,
     shell_command |-> shell_command]

\* json.loads(line) does not raise
Parses(l) == l.kind = "json"

\* the loop that reads the file: every line json.loads accepts, in file order
ParseLines(ls) ==
    [i \in 1..Len(SelectSeq(ls, Parses)) |-> SelectSeq(ls, Parses)[i].value]

\* history[-n:] for n > 0
LastItems(h, n) == IF Len(h) > n THEN SubSeq(h, Len(h) - n + 1, Len(h)) ELSE h

\* the list append_history writes back, without the cap
Capped_KeepAll(h) == h

\* history[-MAX_HISTORY:]
Capped(h) == LastItems(h, MAX_HISTORY)

\* get_last_n_history(n)
get_last_n_history(n) ==
    IF ~historyFile.exists THEN <<>>
    ELSE IF n > 0 THEN LastItems(ParseLines(historyFile.lines), n)
    ELSE ParseLines(historyFile.lines)

\* append_history(natural_language, shell_command) at time t
append_history(natural_language, shell_command, t) ==
    /\ nCalls' = nCalls + 1
    /\ clock' = t
    /\ LET entry == HistoryEntry(t, natural_language, shell_command)
           history == IF historyFile.exists
                      THEN ParseLines(historyFile.lines) ELSE <<>>
           kept == Capped(Append(history, entry))
       IN  /\ historyFile' = [exists |-> TRUE,
                              lines |-> [i \in 1..Len(kept) |-> JsonLine(kept[i])]]
           /\ appended' = Append(appended, entry)
    /\ lastCall' = Call("append_history", natural_language, shell_command, TRUE,
                        "", aliases, aliasFile)
    /\ UNCHANGED <<aliases, aliasFile, files, wfVars, secVars>>

---------------------------------------------------------------------------
(* AITerminalAssistant: the steps of execute_command, run_direct_command, *)
(* handle_error and debug_error                                           *)

\* the danger marker the command-translation role is told to prefix
Marker == "CONFIRM:"

\* the number of characters execute_command slices off a marked command
MarkerSlice == 9

\* command[9:]: what execute_command takes to be the unmarked command
Unmarked(c) == SliceFrom(c, MarkerSlice)

\* verify_dangerous_command: input("> ").strip() == command
verify_dangerous_command(c, typed) == Strip(typed) = c

\* handle_error is entered: the error-handler role is asked for a correction
HandleError(e, ui, c, b, h, acc, l) ==
    Goto("error_handling", c, b, h, acc, cwd, result,
         Append(l, Ev("handle_error", c, FALSE, 0, e)))

\* run_direct_command(c), up to the point where it waits or returns
run_direct_command(c, l) ==
    LET l1  == Append(l, Ev("print_direct", c, TRUE, 0, ""))
        h   == AppendHistory(command_history, c)
        acc == Append(accepted, c)
        path == ExpandUser(AfterFirstBlank(c))
    IN  IF StartsWith(c, "cd ")
        THEN IF ChdirOk(cwd, path)
             THEN Goto("prompt", c, FALSE, h, acc, Resolve(cwd, path),
                       Res("changed_directory", Resolve(cwd, path)),
                       Append(l1, Ev("chdir", path, TRUE, 0, "")))
             ELSE HandleError(ChdirError, c, c, FALSE, h, acc,
                              Append(l1, Ev("chdir", path, FALSE, 0, ChdirError)))
        ELSE IF Lower(Strip(c)) \in {"clear", "cls"}
        THEN Goto("prompt", c, FALSE, h, acc, cwd, Res("empty", ""),
                  Append(l1, Ev("clear", c, TRUE, 0, "")))
        ELSE Goto("executing", c, FALSE, h, acc, cwd, result,
                  Append(l1, Ev("exec", c, is_interactive(c), 0, "direct")))

\* the body of execute_command from the confirmed command on (lines 285-301),
\* up to the point where it waits or returns
RunConfirmed(c, l) ==
    LET l1  == Append(l, Ev("print_command", c, TRUE, 0, ""))
        h   == AppendHistory(command_history, c)
        acc == Append(accepted, c)
        path == ExpandUser(AfterFirstBlank(c))
    IN  IF StartsWith(c, "cd ")
        THEN IF ChdirOk(cwd, path)
             THEN Goto("prompt", c, TRUE, h, acc, Resolve(cwd, path),
                       Res("changed_directory", Resolve(cwd, path)),
                       Append(l1, Ev("chdir", path, TRUE, 0, "")))
             ELSE HandleError(ChdirError, user_input, c, TRUE, h, acc,
                              Append(l1, Ev("chdir", path, FALSE, 0, ChdirError)))
        ELSE Goto("executing", c, TRUE, h, acc, cwd, result,
                  Append(l1, Ev("exec", c, is_interactive(c), 0, "translated")))

\* a direct input that is run as it was typed
DirectInput_AsTyped(u) == u

\* line 255: the direct input `cd..` is read as `cd ..`
DirectInput(u) == IF Strip(SliceFrom(u, 1)) = "cd.." THEN "!cd .." ELSE u

\* execute_command(u) from its first line to the first point where it waits
\* or returns; l is the spy log so far and d the nesting of the call
Enter(u, l, d) ==
    /\ user_input' = IF Strip(u) # "" /\ ~(StartsWith(u, "?") \/ EndsWith(u, "?"))
                        /\ Lower(Strip(u)) \notin {"clear", "cls"}
                        /\ StartsWith(u, "!")
                     THEN DirectInput(u)
                     ELSE u
    /\ depth' = d
    /\ error_analysis' = ""
    /\ atEntry' = [at |-> Len(l), command_history |-> command_history,
                   cwd |-> cwd, aliases |-> aliases]
    /\ IF Strip(u) = ""
       THEN Goto("prompt", "", FALSE, command_history, accepted, cwd,
                 Res("provide_valid_input", ""), l)
       ELSE IF StartsWith(u, "?") \/ EndsWith(u, "?")
       THEN Goto("answering", "", FALSE, command_history, accepted, cwd, result,
                 Append(l, Ev("answer_question", u, TRUE, 0, "")))
       ELSE IF Lower(Strip(u)) \in {"clear", "cls"}
       THEN Goto("prompt", "", FALSE, command_history, accepted, cwd,
                 Res("empty", ""), Append(l, Ev("clear", u, TRUE, 0, "")))
       ELSE IF StartsWith(u, "!")
       THEN LET u1 == DirectInput(u)
                expanded == expand_alias(aliases, Strip(SliceFrom(u1, 1)))
                l1 == IF expanded # SliceFrom(u1, 1)
                      THEN Append(l, Ev("print_expanded", expanded, TRUE, 0, ""))
                      ELSE l
            IN  IF ExpandRaises(aliases, Strip(SliceFrom(u1, 1)))
                THEN \* KeyError in expand_alias (line 256): the except clause
                     \* reads `command`, which is not yet assigned
                     Goto("crashed", "", FALSE, command_history, accepted, cwd,
                          result,
                          Append(l, Ev("unbound_local_error", u, FALSE, 0, "")))
                ELSE run_direct_command(expanded, l1)
       ELSE IF GatherRaises(u)
       THEN \* the except clause (305-307) reads `command`, which is not yet
            \* assigned: UnboundLocalError leaves execute_command and main
            Goto("crashed", "", FALSE, command_history, accepted, cwd, result,
                 Append(l, Ev("unbound_local_error", u, FALSE, 0, "")))
       ELSE Goto("translating", "", FALSE, command_history, accepted, cwd, result,
                 Append(l, Ev("ask_translation", u, TRUE, 0, "")))

\* the else branch of `if choice:` running the command all the same
CancelRun_RunsAnyway(l) == RunConfirmed(command, l)

\* the else branch of `if choice:` (lines 302-304): print "Command cancelled!"
CancelRun(l) ==
    Goto("prompt", command, TRUE, command_history, accepted, cwd, Res("empty", ""),
         Append(l, Ev("print_cancelled", command, TRUE, 0, "")))

\* a refused destructive warning that goes on to the re-type prompt
AbortDestructive_Retypes(l) ==
    Goto("retype", command, TRUE, command_history, accepted, cwd, result, l)

\* `if not confirmation: return "Command execution aborted."` (lines 277-278)
AbortDestructive(l) ==
    Goto("prompt", command, TRUE, command_history, accepted, cwd,
         Res("aborted", ""), l)

\* a failed verification that refuses but has already recorded the command
RejectRetype_RecordsCommand(l) ==
    Goto("prompt", command, TRUE, AppendHistory(command_history, Unmarked(command)),
         Append(accepted, Unmarked(command)), cwd, Res("verification_failed", ""), l)

\* a failed verification that falls through to the execution
RejectRetype_RunsAnyway(l) == RunConfirmed(Unmarked(command), l)

\* `if not self.verify_dangerous_command(command[9:]): return ...` (lines 281-282)
RejectRetype(l) ==
    Goto("prompt", command, TRUE, command_history, accepted, cwd,
         Res("verification_failed", ""), l)

\* handle_error running the suggestion whatever the answer
DeclineSuggested_RunsAnyway(l) == Enter(error_analysis, l, depth + 1)

\* handle_error's last line (448): return "Command execution aborted."
DeclineSuggested(l) ==
    /\ Goto("prompt", command, commandBound, command_history, accepted, cwd,
            Res("aborted", ""), l)
    /\ UNCHANGED <<atEntry, user_input, depth, error_analysis>>

\* debug_error called whatever the exit code
NeedsDebug_Always(o) == TRUE

\* `if exit_code != 0:` (lines 298 and 338)
NeedsDebug(o) == o.code # 0

\* the call debug_error(command, stderr, exit_code) (lines 299 and 339)
DebugCall(c, o) == Ev("debug_error", c, TRUE, o.code, o.err)

\* main, one turn of the loop (lines 49-96): input(prompt) returned line u; t2
\* is the second reading of the clock in add_alias.  setup_wizard (--config) is
\* taken to return; the new assistant starts with an empty history and an
\* AliasManager that loads the persisted document.
main(u, t2) ==
    /\ pc = "prompt"
    /\ nInputs' = nInputs + 1
    /\ line' = u
    /\ UNCHANGED <<nCalls, histVars, secVars>>
    /\ IF Lower(u) \in {"quit", "exit"}
       THEN /\ Goto("terminated", command, commandBound, command_history, accepted,
                    cwd, result, <<Ev("print_terminating", u, TRUE, 0, "")>>)
            /\ UNCHANGED <<atEntry, user_input, depth, error_analysis>>
            /\ NoManagerCall
       ELSE IF Lower(u) = "--config"
       THEN /\ Goto("prompt", command, commandBound, <<>>, accepted, cwd,
                    Res("configuration_updated", ""),
                    <<Ev("print_configuration_updated", u, TRUE, 0, "")>>)
            /\ aliases' = aliasFile
            /\ UNCHANGED <<atEntry, user_input, depth, error_analysis>>
            /\ UNCHANGED <<aliasFile, clock, files, lastCall>>
       ELSE IF Lower(u) = "--help"
       THEN /\ Goto("prompt", command, commandBound, command_history, accepted,
                    cwd, Res("help", ""), <<Ev("print_help", u, TRUE, 0, "")>>)
            /\ UNCHANGED <<atEntry, user_input, depth, error_analysis>>
            /\ NoManagerCall
       ELSE IF StartsWith(RStrip(Lower(u)), "alias")
       THEN /\ handle_alias_command(u, t2)
            /\ log' = <<Ev("alias_command", u, TRUE, 0, "")>>
            /\ UNCHANGED <<pc, command, commandBound, command_history, accepted,
                           cwd, atEntry, user_input, depth, error_analysis>>
       ELSE /\ Enter(u, <<>>, 0)
            /\ NoManagerCall

\* main, one turn of the loop, with both readings of the clock in the same instant
ReadInput(u) == main(u, clock)

\* the command-translation role replied g (line 261-273): the proposal is shown
CommandExecutorReturns(g) ==
    /\ pc = "translating"
    /\ Goto("confirm_run", Strip(g), TRUE, command_history, accepted, cwd, result,
            Append(log, Ev("proposed", Strip(g), TRUE, 0, "")))
    /\ UNCHANGED <<atEntry, user_input, depth, error_analysis, nInputs, line>>
    /\ UNCHANGED envVars

\* the user answered "Do you want to run the command ...?" (lines 273-275, 302-304)
ConfirmRun(choice) ==
    /\ pc = "confirm_run"
    /\ LET l1 == Append(log, Ev("confirm_run", command, choice, 0, ""))
       IN  IF choice
           THEN IF StartsWith(command, Marker)
                THEN Goto("confirm_destructive", command, TRUE, command_history,
                          accepted, cwd, result, l1)
                ELSE RunConfirmed(command, l1)
           ELSE CancelRun(l1)
    /\ UNCHANGED <<atEntry, user_input, depth, error_analysis, nInputs, line>>
    /\ UNCHANGED envVars

\* the user answered "Warning: This command may be destructive ..." (lines 276-278)
ConfirmDestructive(confirmation) ==
    /\ pc = "confirm_destructive"
    /\ LET l1 == Append(log, Ev("confirm_destructive", Unmarked(command),
                                confirmation, 0, ""))
       IN  IF confirmation
           THEN Goto("retype", command, TRUE, command_history, accepted, cwd,
                     result, l1)
           ELSE AbortDestructive(l1)
    /\ UNCHANGED <<atEntry, user_input, depth, error_analysis, nInputs, line>>
    /\ UNCHANGED envVars

\* a re-type prompt after which the proposal is run with its marker
Retype_RunsProposal(typed) ==
    /\ pc = "retype"
    /\ LET verified == verify_dangerous_command(Unmarked(command), typed)
           l1 == Append(log, Ev("retype", typed, verified, 0, Unmarked(command)))
       IN  IF verified
           THEN RunConfirmed(command, l1)
           ELSE RejectRetype(l1)
    /\ UNCHANGED <<atEntry, user_input, depth, error_analysis, nInputs, line>>
    /\ UNCHANGED envVars

\* the user typed `typed` at the re-type prompt (lines 281-284, 459-461)
Retype(typed) ==
    /\ pc = "retype"
    /\ LET verified == verify_dangerous_command(Unmarked(command), typed)
           l1 == Append(log, Ev("retype", typed, verified, 0, Unmarked(command)))
       IN  IF verified
           THEN RunConfirmed(Unmarked(command), l1)
           ELSE RejectRetype(l1)
    /\ UNCHANGED <<atEntry, user_input, depth, error_analysis, nInputs, line>>
    /\ UNCHANGED envVars

\* execute_command_with_live_output returned (_, o.err, o.code) (lines 296-301
\* and 336-341): a non-zero exit code calls debug_error
ExecutorReturns(r) ==
    /\ pc = "executing"
    /\ LET o  == ExecutorResult(r)
           l1 == Append(log, EvReturn(command, is_interactive(command), o, r.raised))
       IN  IF NeedsDebug(o)
           THEN Goto("debugging", command, commandBound, command_history, accepted,
                     cwd, result, Append(l1, DebugCall(command, o)))
           ELSE Goto("prompt", command, commandBound, command_history, accepted,
                     cwd, Res("empty", ""), l1)
    /\ UNCHANGED <<atEntry, user_input, depth, error_analysis, nInputs, line>>
    /\ UNCHANGED envVars

\* the debugger's reply shown as a new proposal instead of being returned
DebuggerReturns_Reenters(s) ==
    /\ pc = "debugging"
    /\ Goto("confirm_run", s, TRUE, command_history, accepted, cwd, result,
            Append(log, Ev("proposed", s, TRUE, 0, "")))
    /\ UNCHANGED <<atEntry, user_input, depth, error_analysis, nInputs, line>>
    /\ UNCHANGED envVars

\* the debugger role replied s: it is appended to the result text (lines 300-301)
DebuggerReturns(s) ==
    /\ pc = "debugging"
    /\ Goto("prompt", command, commandBound, command_history, accepted, cwd,
            Res("debugging_suggestion", s), log)
    /\ UNCHANGED <<atEntry, user_input, depth, error_analysis, nInputs, line>>
    /\ UNCHANGED envVars

\* the error-handler role replied s: handle_error prints it and asks (lines 434-445)
ErrorHandlerReturns(s) ==
    /\ pc = "error_handling"
    /\ error_analysis' = s
    /\ Goto("confirm_suggested", command, commandBound, command_history, accepted,
            cwd, result, Append(log, Ev("print_suggested", s, TRUE, 0, "")))
    /\ UNCHANGED <<atEntry, user_input, depth, nInputs, line>>
    /\ UNCHANGED envVars

\* the user answered "Would you like to execute the suggested command?"
\* (lines 445-448): yes calls execute_command(error_analysis)
ConfirmSuggested(confirmation) ==
    /\ pc = "confirm_suggested"
    /\ LET l1 == Append(log, Ev("confirm_suggested", error_analysis,
                                confirmation, 0, ""))
       IN  IF confirmation
           THEN Enter(error_analysis, l1, depth + 1)
           ELSE DeclineSuggested(l1)
    /\ UNCHANGED <<nInputs, line>>
    /\ UNCHANGED envVars

\* the question-answering role replied s (lines 360-366)
QuestionAnswered(s) ==
    /\ pc = "answering"
    /\ Goto("prompt", command, commandBound, command_history, accepted, cwd,
            Res("answer", s), log)
    /\ UNCHANGED <<atEntry, user_input, depth, error_analysis, nInputs, line>>
    /\ UNCHANGED envVars

\* the prompts questionary.confirm(...).ask() shows: ask() catches
\* KeyboardInterrupt and returns None
ConfirmPrompts == {"confirm_run", "confirm_destructive", "confirm_suggested"}

\* the other points where the session waits: input() of main and of
\* verify_dangerous_command, the calls of the language model, the subprocess
OtherWaits == {"prompt", "retype", "translating", "executing", "debugging",
               "error_handling", "answering"}

\* an interrupt at a confirmation prompt that leaves the session like any other
InterruptAtConfirm_Terminates ==
    /\ Goto("terminated", command, commandBound, command_history, accepted, cwd,
            result,
            Append(Append(log, Ev("interrupt", pc, TRUE, 0, "")),
                   Ev("print_terminating", "", TRUE, 0, "")))
    /\ UNCHANGED <<atEntry, user_input, depth, error_analysis>>

\* an interrupt at a confirmation prompt: the answer is None, which the code
\* tests like a "no" (lines 274, 277 and 446)
InterruptAtConfirm ==
    LET l1 == Append(log, Ev("interrupt", pc, TRUE, 0, ""))
    IN  IF pc = "confirm_run"
        THEN /\ CancelRun(Append(l1, Ev("confirm_run", command, FALSE, 0, "")))
             /\ UNCHANGED <<atEntry, user_input, depth, error_analysis>>
        ELSE IF pc = "confirm_destructive"
        THEN /\ AbortDestructive(Append(l1, Ev("confirm_destructive",
                                               Unmarked(command), FALSE, 0, "")))
             /\ UNCHANGED <<atEntry, user_input, depth, error_analysis>>
        ELSE DeclineSuggested(Append(l1, Ev("confirm_suggested", error_analysis,
                                            FALSE, 0, "")))

\* the interrupt signal (KeyboardInterrupt) arrives while the session waits.
\* Neither Node.__call__ nor execute_command nor the Executor catches it
\* (they catch Exception); main does (lines 98-100).
Interrupt ==
    /\ pc \in ConfirmPrompts \cup OtherWaits
    /\ IF pc \in ConfirmPrompts
       THEN InterruptAtConfirm
       ELSE /\ Goto("terminated", command, commandBound, command_history,
                    accepted, cwd, result,
                    Append(Append(log, Ev("interrupt", pc, TRUE, 0, "")),
                           Ev("print_terminating", "", TRUE, 0, "")))
            /\ UNCHANGED <<atEntry, user_input, depth, error_analysis>>
    /\ UNCHANGED <<nInputs, line>>
    /\ UNCHANGED envVars

\* input(prompt) of main finds the end of its input: EOFError, which main does
\* not catch
EndOfInput ==
    /\ pc = "prompt"
    /\ Goto("crashed", command, commandBound, command_history, accepted, cwd,
            result, <<Ev("eof_error", "", FALSE, 0, "")>>)
    /\ UNCHANGED <<atEntry, user_input, depth, error_analysis, nInputs, line>>
    /\ UNCHANGED envVars

---------------------------------------------------------------------------
(* The session specification *)

\* lines typed at the prompt
Inputs == {"delete everything in tmp", "!ls", "!cd ..", "!cd /nope", "!ll /tmp",
           "read secret.bin", "?why", "clear", "", "quit"}

\* replies of the command-translation role
GatewayOutputs == {"CONFIRM:rm -rf /tmp/*", "CONFIRM: rm x", "ls", "vi x",
                   "cd /tmp", "cd /nope"}

\* replies of the error-handler role
Suggestions == {"cd /tmp", "!ls", "!ll /tmp"}

\* replies of the debugger role
DebuggerOutputs == {"check the path"}

\* replies of the question-answering role
Answers == {"an answer"}

\* what the user may type at the re-type prompt for marked command c: the text
\* after the 8-character marker, the text the code compares with, the same with
\* blanks around it, and something else
TypedInputs(c) == {SliceFrom(c, Len(Marker)), Unmarked(c),
                   " " \o Unmarked(c) \o " ", "rm -rf /wrong/path"}

Init ==
    /\ pc = "prompt"
    /\ user_input = ""
    /\ command = ""
    /\ commandBound = FALSE
    /\ error_analysis = ""
    /\ command_history = <<>>
    /\ cwd = Home
    /\ result = Res("empty", "")
    /\ log = <<>>
    /\ depth = 0
    /\ nInputs = 0
    /\ accepted = <<>>
    /\ line = ""
    /\ aliases = LoadedAliases
    /\ aliasFile = LoadedAliases
    /\ clock = 0
    /\ nCalls = 0
    /\ lastCall = NoCall
    /\ files = NoFiles
    /\ historyFile = NoHistoryFile
    /\ appended = <<>>
    /\ config = EmptyConfig
    /\ keyring = EmptyKeyring
    /\ migration = NoMigration
    /\ atEntry = NoEntry

Next ==
    \/ \E u \in Inputs : nInputs < MaxInputs /\ ReadInput(u)
    \/ \E g \in GatewayOutputs : CommandExecutorReturns(g)
    \/ \E a \in BOOLEAN : ConfirmRun(a)
    \/ \E a \in BOOLEAN : ConfirmDestructive(a)
    \/ \E t \in TypedInputs(command) : Retype(t)
    \/ \E o \in ExecOutcomes(command) : ExecutorReturns(o)
    \/ \E s \in DebuggerOutputs : DebuggerReturns(s)
    \/ \E s \in Suggestions : ErrorHandlerReturns(s)
    \/ \E a \in BOOLEAN : (a => depth < MaxDepth) /\ ConfirmSuggested(a)
    \/ \E s \in Answers : QuestionAnswered(s)

Spec == Init /\ [][Next]_vars

---------------------------------------------------------------------------
(* Reading the spy log *)

\* the positions of the spy log
LogIdx == 1..Len(log)

\* the position of the last proposal shown at or before position k, or 0
ProposalOf(k) ==
    IF \E j \in 1..k : log[j].ev = "proposed"
    THEN CHOOSE j \in 1..k :
            log[j].ev = "proposed" /\ \A m \in (j + 1)..k : log[m].ev # "proposed"
    ELSE 0

\* the positions at which the Executor was invoked for the proposal at position i
ExecsOf(i) == {m \in LogIdx : log[m].ev = "exec" /\ ProposalOf(m) = i}

\* the positions at which a command was run: by the Executor or by the cd case
RunIdx == {m \in LogIdx : log[m].ev \in {"exec", "chdir"}}

\* the proposal at position i carries the danger marker
IsMarked(i) == log[i].ev = "proposed" /\ StartsWith(log[i].text, Marker)

\* the proposal's text with exactly the marker removed
MarkerRemoved(i) == SliceFrom(log[i].text, Len(Marker))

\* position j is the re-type prompt of the proposal at position i
RetypeOf(i, j) == j \in LogIdx /\ j > i /\ log[j].ev = "retype" /\ ProposalOf(j) = i

---------------------------------------------------------------------------
(* Claims about the confirmation workflow *)

\* C1: when the gateway returns a command carrying the marker CONFIRM:, the user
\* answers yes to every prompt and re-types the command (the gateway output with
\* the marker removed), the Executor is invoked exactly once, with that command.
\* Blanks around the command are not counted as a difference.
C1_ExecutorGetsUnmarkedCommand ==
    \A i \in LogIdx : \A j \in LogIdx :
        (/\ IsMarked(i)
         /\ RetypeOf(i, j)
         /\ Strip(log[j].text) = Strip(MarkerRemoved(i)))
        => /\ Cardinality(ExecsOf(i)) = 1
           /\ \A m \in ExecsOf(i) : log[m].text = Strip(MarkerRemoved(i))

\* C2: when the proposal is marked dangerous and the user confirms but types a
\* string that does not match the command (even disregarding blanks around it),
\* the Executor is never invoked and the result reports the failed verification.
C2_MismatchNeverExecutes ==
    \A i \in LogIdx : \A j \in LogIdx :
        (/\ IsMarked(i)
         /\ RetypeOf(i, j)
         /\ Strip(log[j].text) # Strip(MarkerRemoved(i)))
        => /\ ExecsOf(i) = {}
           /\ pc = "prompt" => result.kind = "verification_failed"

\* C3: a no at the first yes/no prompt ends the processing of the line in
\* Cancelled: the prompt directly followed the proposal, "Command cancelled!" is
\* printed and nothing comes after it, the empty result is returned, no re-type
\* prompt was shown for the proposal and the Executor was not invoked.
C3_NoCancels ==
    \A i \in LogIdx :
        (log[i].ev = "confirm_run" /\ ~log[i].ok)
        => /\ pc = "prompt"
           /\ result = Res("empty", "")
           /\ i > 1 /\ log[i - 1].ev = "proposed"
           /\ Len(log) = i + 1
           /\ log[i + 1].ev = "print_cancelled"
           /\ \A m \in LogIdx : log[m].ev # "exec"
           /\ \A m \in LogIdx : log[m].ev = "retype" => ProposalOf(m) # i - 1

\* a marked proposal was cancelled at the first prompt
C3_Witness ==
    \E i \in LogIdx :
        /\ log[i].ev = "confirm_run" /\ ~log[i].ok
        /\ StartsWith(log[i].text, Marker)

\* the last proposal or suggestion prompt before position k: where the command
\* run at k came from (0: the user's own `!` line)
OriginOf(k) ==
    IF \E j \in 1..(k - 1) : log[j].ev \in {"proposed", "confirm_suggested"}
    THEN CHOOSE j \in 1..(k - 1) :
            /\ log[j].ev \in {"proposed", "confirm_suggested"}
            /\ \A m \in (j + 1)..(k - 1) :
                   log[m].ev \notin {"proposed", "confirm_suggested"}
    ELSE 0

\* C4: every command the language model produced (a translation, or a suggested
\* fix run through the `!` route) reaches the Executor or the cd case only after
\* a yes to a confirmation prompt for it while the same line is processed, and a
\* marked one only after a successful re-type verification as well.
C4_RunOnlyAfterYes ==
    \A k \in RunIdx :
        LET j == OriginOf(k)
        IN  /\ (j # 0 /\ log[j].ev = "proposed")
                => /\ log[j + 1].ev = "confirm_run" /\ log[j + 1].ok
                   /\ log[j + 1].text = log[j].text
                   /\ IsMarked(j)
                        => /\ log[j + 2].ev = "confirm_destructive" /\ log[j + 2].ok
                           /\ \E r \in (j + 3)..(k - 1) :
                                  log[r].ev = "retype" /\ log[r].ok
            /\ (j # 0 /\ log[j].ev = "confirm_suggested")
                => /\ log[j].ok
                   /\ log[j - 1].ev = "print_suggested"
                   /\ log[j - 1].text = log[j].text

\* a marked command was run after the re-type verification
C4_Witness ==
    \E k \in RunIdx :
        /\ OriginOf(k) # 0
        /\ IsMarked(OriginOf(k))
        /\ \E r \in OriginOf(k)..k : log[r].ev = "retype" /\ log[r].ok

---------------------------------------------------------------------------
(* Claims about the diagnostic step *)

\* the positions at which debug_error was called
DebugIdx == {m \in LogIdx : log[m].ev = "debug_error"}

\* position k is the return of a command run on the batch branch with a
\* non-zero exit code
BatchFailure(k) ==
    k \in LogIdx /\ log[k].ev = "exec_return" /\ ~log[k].ok /\ log[k].code # 0

\* C5 as the spec states it: after a batch command exits non-zero the diagnostic
\* step is invoked exactly once with its stderr and exit code, and once the
\* suggestion is back it is shown as a new proposal that re-enters the
\* confirmation workflow.
C5_SuggestionReentersWorkflow ==
    \A k \in LogIdx :
        BatchFailure(k)
        => /\ Cardinality(DebugIdx) = 1
           /\ log[k + 1] = Ev("debug_error", log[k].text, TRUE, log[k].code, log[k].err)
           /\ pc # "debugging"
                => \E j \in (k + 2)..Len(log) : log[j].ev = "proposed"

\* C5 amended: after a batch command exits non-zero, debug_error is invoked
\* exactly once, with that command, its stderr and its exit code; the suggestion
\* it returns becomes the returned result text and nothing else happens for the
\* line: no proposal is shown, no prompt is asked, nothing is run.
C5_SuggestionOnlyReturned ==
    \A k \in LogIdx :
        BatchFailure(k)
        => /\ Cardinality(DebugIdx) = 1
           /\ log[k + 1] = Ev("debug_error", log[k].text, TRUE, log[k].code, log[k].err)
           /\ Len(log) = k + 1
           /\ pc \in {"debugging", "prompt"}
           /\ pc = "prompt" => result.kind = "debugging_suggestion"

\* a batch command failed and the debugger's suggestion was returned
C5_Witness ==
    /\ pc = "prompt"
    /\ result.kind = "debugging_suggestion"
    /\ \E k \in LogIdx : BatchFailure(k) /\ log[k].err = "boom" /\ log[k].code = 2

\* position j holds a yes to the suggestion that was printed just before it
FreshYes(j) ==
    /\ j \in LogIdx /\ j > 1
    /\ log[j].ev = "confirm_suggested" /\ log[j].ok
    /\ log[j - 1].ev = "print_suggested"
    /\ log[j - 1].text = log[j].text

\* position k holds a failure: a non-zero exit code (a spawn failure is
\* returned as exit code 1) or the exception of a failed chdir
FailureAt(k) ==
    /\ k \in LogIdx
    /\ \/ log[k].ev = "exec_return" /\ log[k].code # 0
       \/ log[k].ev = "chdir" /\ ~log[k].ok

\* C6: the workflow never retries automatically.  After a failure nothing is
\* run while the same line is processed unless the user answered yes to a
\* suggestion shown after that failure; after a non-zero exit nothing is run at
\* all; and a declined suggestion ends the processing of the line.
C6_NoAutomaticRetry ==
    /\ \A k \in LogIdx : \A m \in RunIdx :
           (FailureAt(k) /\ m > k)
           => /\ log[k].ev = "chdir"
              /\ \E j \in (k + 1)..(m - 1) : FreshYes(j)
    /\ \A j \in LogIdx :
           (log[j].ev = "confirm_suggested" /\ ~log[j].ok)
           => /\ Len(log) = j
              /\ pc = "prompt"
              /\ result = Res("aborted", "")

\* after a failed chdir the user accepted the suggestion and a command was run
C6_Witness ==
    \E k \in LogIdx : \E m \in RunIdx :
        FailureAt(k) /\ m > k /\ log[m].ev = "exec"

\* C7 as the spec states it: the diagnostic step is invoked only after the
\* batch branch returned a non-zero exit code, never after a command run on the
\* interactive branch.
C7_DebugOnlyAfterBatchFailure ==
    \A m \in DebugIdx : BatchFailure(m - 1)

\* C7 amended: the diagnostic step is invoked only directly after the Executor
\* returned a non-zero exit code for the command, on the batch branch or on the
\* interactive branch; never after exit code 0, after a cd command, or after a
\* cancelled or aborted workflow.
C7_DebugOnlyAfterNonZeroExit ==
    /\ \A m \in DebugIdx :
           /\ m > 1
           /\ log[m - 1].ev = "exec_return"
           /\ log[m - 1].code # 0
           /\ log[m] = Ev("debug_error", log[m - 1].text, TRUE,
                          log[m - 1].code, log[m - 1].err)
    /\ pc = "debugging" => (DebugIdx # {} /\ log[Len(log)].ev = "debug_error")
    /\ (pc = "prompt" /\ result.kind \in {"aborted", "verification_failed",
                                          "changed_directory"})
           => DebugIdx = {}
    /\ \A i \in LogIdx :
           log[i].ev \in {"print_cancelled", "chdir", "confirm_run",
                          "confirm_destructive", "retype", "confirm_suggested"}
           => (i + 1 \in LogIdx => log[i + 1].ev # "debug_error")

\* the diagnostic step was invoked after a command of the interactive branch
C7_Witness ==
    \E m \in DebugIdx : log[m - 1].ev = "exec_return" /\ log[m - 1].ok

---------------------------------------------------------------------------
(* The history specification: sessions long enough to pass the history cap *)

\* lines typed at the prompt: one to translate, one run directly
HistLines == {"list files", "!pwd"}

\* replies of the command-translation role
HistGatewayOutputs == {"ls"}

NextHist ==
    \/ \E u \in HistLines : nInputs < HistInputs /\ ReadInput(u)
    \/ \E g \in HistGatewayOutputs : CommandExecutorReturns(g)
    \/ \E a \in {TRUE} : ConfirmRun(a)
    \/ \E o \in {Ran("", 0)} : ExecutorReturns(o)

SpecHist == Init /\ [][NextHist]_vars

\* the last n elements of sequence q
LastN(q, n) == IF Len(q) <= n THEN q ELSE SubSeq(q, Len(q) - n + 1, Len(q))

\* C8: after any sequence of accepted commands, on the translated path and on
\* the direct path, command_history holds at most 10 entries, and they are the
\* most recently accepted commands, oldest first.
C8_HistoryIsLastTen ==
    /\ Len(command_history) <= 10
    /\ command_history = LastN(accepted, 10)

\* fifteen commands were accepted, on both paths, and ten remain
C8_Witness ==
    /\ Len(accepted) = 15
    /\ Len(command_history) = 10
    /\ \E i \in 1..5 : accepted[i] = "ls"
    /\ \E i \in 1..5 : accepted[i] = "pwd"
    /\ \E i \in 6..15 : accepted[i] = "ls"
    /\ \E i \in 6..15 : accepted[i] = "pwd"

---------------------------------------------------------------------------
(* The alias specification *)

\* a document edited by hand: load_aliases does not validate what it loads
HandEditedAliases == [n \in {"my-alias"} |-> AliasRecord("ls", "", 0, 0)]

\* the tables load_aliases may find at start-up
AliasTables == {EmptyTable, LoadedAliases, HandEditedAliases}

\* the arguments of the calls
AliasNames == {"ll", "g", "g\n", "1a", "my-alias", ""}
AliasCommands == {"git status", "sudo rm -rf /tmp"}
AliasDescriptions == {"d"}

InitAlias ==
    /\ pc = "prompt"
    /\ user_input = ""
    /\ command = ""
    /\ commandBound = FALSE
    /\ error_analysis = ""
    /\ command_history = <<>>
    /\ cwd = Home
    /\ result = Res("empty", "")
    /\ log = <<>>
    /\ depth = 0
    /\ nInputs = 0
    /\ accepted = <<>>
    /\ line = ""
    /\ aliases \in AliasTables
    /\ aliasFile = aliases
    /\ clock = 1
    /\ nCalls = 0
    /\ lastCall = NoCall
    /\ files = NoFiles
    /\ historyFile = NoHistoryFile
    /\ appended = <<>>
    /\ config = EmptyConfig
    /\ keyring = EmptyKeyring
    /\ migration = NoMigration
    /\ atEntry = NoEntry

NextAlias ==
    \/ \E name \in AliasNames, c \in AliasCommands, d \in AliasDescriptions,
          t2 \in {clock, clock + 1} :
           nCalls < MaxCalls /\ ManagerCall(add_alias(name, c, d, t2))
    \/ \E name \in AliasNames : nCalls < MaxCalls /\ ManagerCall(remove_alias(name))

SpecAlias == InitAlias /\ [][NextAlias]_vars

\* the name is an identifier: one of [A-Za-z_] followed by word characters only,
\* as Python's re.match reads ^[A-Za-z_]\w*$
RECURSIVE AllWordChars(_)
AllWordChars(s) ==
    IF Len(s) = 0 THEN TRUE
    ELSE IF Len(s) = 1 /\ s = "\n" THEN TRUE
    ELSE IsWordChar(Head(s)) /\ AllWordChars(Tail(s))

MatchesIdentifierPattern(name) ==
    /\ Len(name) >= 1
    /\ Head(name) \notin {"0", "1", "2", "3", "4", "5", "6", "7", "8", "9", "\n"}
    /\ AllWordChars(name)

\* C9: for every alias name that does not match ^[A-Za-z_]\w*$, add_alias fails
\* with the invalid-name error and leaves the in-memory alias table and the
\* persisted alias document unchanged.
C9_InvalidNameRejected ==
    (lastCall.op = "add_alias" /\ ~MatchesIdentifierPattern(lastCall.name))
    => /\ ~lastCall.ok
       /\ lastCall.msg = ErrInvalidName
       /\ aliases = lastCall.preAliases
       /\ aliasFile = lastCall.preFile

\* add_alias was called with a name that starts with a digit, on a table that
\* holds an alias
C9_Witness ==
    /\ lastCall.op = "add_alias"
    /\ lastCall.name = "1a"
    /\ DOMAIN lastCall.preAliases # {}

\* C10 as the spec states it: add_alias with a name that is already in the table
\* fails with the duplicate error, and the table and the document are unchanged.
C10_ExistingNameIsDuplicate ==
    (lastCall.op = "add_alias" /\ lastCall.name \in DOMAIN lastCall.preAliases)
    => /\ ~lastCall.ok
       /\ lastCall.msg = ErrDuplicate
       /\ aliases = lastCall.preAliases
       /\ aliasFile = lastCall.preFile

\* C10 amended: add_alias with a name that is already in the table fails and
\* leaves the existing alias (command, description, timestamps), the table and
\* the document unchanged; the error is the duplicate error when the name is
\* valid and the command passes the denylist, the invalid-command error when
\* the name is valid and the command contains a denylisted substring, and the
\* invalid-name error when the name is invalid.
C10_ExistingNameRejected ==
    (lastCall.op = "add_alias" /\ lastCall.name \in DOMAIN lastCall.preAliases)
    => /\ ~lastCall.ok
       /\ lastCall.msg =
              IF ~MatchesIdentifierPattern(lastCall.name) THEN ErrInvalidName
              ELSE IF \E b \in blacklist : Contains(lastCall.command, b)
                   THEN ErrInvalidCommand
                   ELSE ErrDuplicate
       /\ aliases = lastCall.preAliases
       /\ aliases[lastCall.name] = lastCall.preAliases[lastCall.name]
       /\ aliasFile = lastCall.preFile

\* add_alias was called for an existing name with a safe command and another
\* description, at a later time than the alias was created
C10_Witness ==
    /\ lastCall.op = "add_alias"
    /\ lastCall.name \in DOMAIN lastCall.preAliases
    /\ lastCall.msg = ErrDuplicate
    /\ lastCall.preAliases[lastCall.name].description # "d"
    /\ lastCall.preAliases[lastCall.name].command # lastCall.command


---------------------------------------------------------------------------
(* The import/export specification *)

\* AliasManager calls explored in the import/export specification
MaxPortCalls == 4

\* a batch with two valid entries, an entry with an invalid name and an entry
\* whose command contains a denylisted substring
MixedBatch ==
    JsonDoc(<<Entry("ok1", JObject(AliasRecord("ls -la", "", 0, 0))),
              Entry("bad-name", JObject(AliasRecord("pwd", "", 0, 0))),
              Entry("wipe", JObject(AliasRecord("sudo rm -rf / --no-preserve-root",
                                                "", 0, 0))),
              Entry("ok2", JObject(AliasRecord("pwd", "", 0, 0)))>>)

\* a batch whose second entry is a string instead of an object
MalformedBatch ==
    JsonDoc(<<Entry("ok1", JObject(AliasRecord("ls -la", "", 0, 0))),
              Entry("note", JString("ls")),
              Entry("ok2", JObject(AliasRecord("pwd", "", 0, 0)))>>)

\* a document whose only alias has no command: import_aliases accepts it,
\* because alias_data.get('command', '') passes validate_command
NoCommandBatch == JsonDoc(<<Entry("nc", JObject([description |-> "no command"]))>>)

\* the files a user may be handed to import
ImportableFiles == {NoFile, NotJson, MixedBatch, MalformedBatch}

\* the arguments of the calls
PortNames == {"g", "ok1"}
PortCommands == {"git status", "mkfs /dev/sda"}
PortDescriptions == {"d"}
PortPaths == {"/tmp/a.json", "~/a.json"}

InitPorting ==
    /\ pc = "prompt"
    /\ user_input = ""
    /\ command = ""
    /\ commandBound = FALSE
    /\ error_analysis = ""
    /\ command_history = <<>>
    /\ cwd = Home
    /\ result = Res("empty", "")
    /\ log = <<>>
    /\ depth = 0
    /\ nInputs = 0
    /\ accepted = <<>>
    /\ line = ""
    /\ aliases = EmptyTable
    /\ aliasFile = EmptyTable
    /\ clock = 1
    /\ nCalls = 0
    /\ lastCall = NoCall
    /\ \E f \in ImportableFiles :
          files = [p \in FilePaths |-> IF p = "/home/u/a.json" THEN f ELSE NoFile]
    /\ historyFile = NoHistoryFile
    /\ appended = <<>>
    /\ config = EmptyConfig
    /\ keyring = EmptyKeyring
    /\ migration = NoMigration
    /\ atEntry = NoEntry

NextPorting ==
    \/ \E name \in PortNames, c \in PortCommands, d \in PortDescriptions,
          t2 \in {clock, clock + 1} :
           nCalls < MaxPortCalls /\ ManagerCall(add_alias(name, c, d, t2))
    \/ \E name \in PortNames : nCalls < MaxPortCalls /\ ManagerCall(remove_alias(name))
    \/ \E path \in PortPaths : nCalls < MaxPortCalls /\ ManagerCall(import_aliases(path))
    \/ \E path \in PortPaths : nCalls < MaxPortCalls /\ ManagerCall(export_aliases(path))

SpecPorting == InitPorting /\ [][NextPorting]_vars

\* the command contains a denylisted substring
Denylisted(c) == \E b \in blacklist : Contains(c, b)

\* the members of the document the last import_aliases call read
Batch == FileAt(ExpandUser(lastCall.name)).entries

\* C11: add_alias rejects every command that contains a denylisted substring,
\* and import_aliases skips exactly the entries of a batch whose name is
\* invalid or whose command contains a denylisted substring, while inserting
\* every other (object) entry of the same batch.
C11_DenylistEnforced ==
    /\ (lastCall.op = "add_alias" /\ Denylisted(lastCall.command))
       => /\ ~lastCall.ok
          /\ aliases = lastCall.preAliases
    /\ (lastCall.op = "import_aliases"
            /\ FileAt(ExpandUser(lastCall.name)).kind = "json")
       => \A i \in 1..Len(Batch) :
             Batch[i].value.t = "object" =>
                IF /\ MatchesIdentifierPattern(Batch[i].name)
                   /\ ~Denylisted(GetCommand(Batch[i].value.v))
                THEN /\ Batch[i].name \in DOMAIN aliases
                     /\ aliases[Batch[i].name] = Batch[i].value.v
                ELSE /\ Batch[i].name \in DOMAIN aliases
                            <=> Batch[i].name \in DOMAIN lastCall.preAliases
                     /\ Batch[i].name \in DOMAIN aliases
                            => aliases[Batch[i].name]
                                  = lastCall.preAliases[Batch[i].name]

\* the table import_aliases builds from the document at path, starting empty
ImportedBack(path) ==
    ImportLoop([table |-> EmptyTable, raised |-> FALSE], FileAt(path).entries)

\* C12: after export_aliases has written a table to a file, import_aliases of
\* that file into an empty table completes and yields a table with exactly
\* the same alias names, and for every name the same command and description;
\* and an import_aliases call that found the table empty and read the file an
\* export_aliases call wrote leaves exactly the table that file holds.
C12_ExportImportRoundTrip ==
    /\ (lastCall.op = "export_aliases" /\ lastCall.ok)
       => /\ FileAt(lastCall.name).kind = "json"
          /\ ~ImportedBack(lastCall.name).raised
          /\ DOMAIN ImportedBack(lastCall.name).table = DOMAIN aliases
          /\ \A n \in DOMAIN aliases :
                /\ ImportedBack(lastCall.name).table[n].command
                      = aliases[n].command
                /\ ImportedBack(lastCall.name).table[n].description
                      = aliases[n].description
    /\ (lastCall.op = "import_aliases" /\ lastCall.ok
           /\ lastCall.preAliases = EmptyTable /\ lastCall.name = "/tmp/a.json")
       => /\ DOMAIN aliases = {FileAt("/tmp/a.json").entries[i].name :
                                  i \in 1..Len(FileAt("/tmp/a.json").entries)}
          /\ \A i \in 1..Len(FileAt("/tmp/a.json").entries) :
                aliases[FileAt("/tmp/a.json").entries[i].name]
                   = FileAt("/tmp/a.json").entries[i].value.v

\* a table of two aliases, one of them added with a description, was exported
C12_Witness ==
    /\ lastCall.op = "export_aliases"
    /\ lastCall.ok
    /\ Cardinality(DOMAIN aliases) >= 2
    /\ \E n \in DOMAIN aliases : aliases[n].description = "d"


---------------------------------------------------------------------------
(* The alias-expansion specification *)

\* expand_alias calls explored
MaxExpandCalls == 3

\* a table in which the template of one alias starts with the name of another,
\* and one whose template has blanks around it
ChainedAliases ==
    [n \in {"ll", "la", "sp"} |->
        IF n = "ll" THEN AliasRecord("ls -l", "", 0, 0)
        ELSE IF n = "la" THEN AliasRecord("ll -a", "", 0, 0)
        ELSE AliasRecord(" echo  ", "", 0, 0)]

ExpandTables == {EmptyTable, LoadedAliases, ChainedAliases}

\* the inputs of expand_alias
ExpandInputs == {"ll", "ll /tmp", "  ll   /tmp  ", "ll\t-a b", "la", "la x y",
                 "sp hi", "sp", "ls", " ls -l ", "lla", "l", "", "   ", "\t"}

InitExpand ==
    /\ pc = "prompt"
    /\ user_input = ""
    /\ command = ""
    /\ commandBound = FALSE
    /\ error_analysis = ""
    /\ command_history = <<>>
    /\ cwd = Home
    /\ result = Res("empty", "")
    /\ log = <<>>
    /\ depth = 0
    /\ nInputs = 0
    /\ accepted = <<>>
    /\ line = ""
    /\ aliases \in ExpandTables
    /\ aliasFile = aliases
    /\ clock = 1
    /\ nCalls = 0
    /\ lastCall = NoCall
    /\ files = NoFiles
    /\ historyFile = NoHistoryFile
    /\ appended = <<>>
    /\ config = EmptyConfig
    /\ keyring = EmptyKeyring
    /\ migration = NoMigration
    /\ atEntry = NoEntry

NextExpand ==
    \E x \in ExpandInputs : nCalls < MaxExpandCalls /\ ManagerCall(expand_call(x))

SpecExpand == InitExpand /\ [][NextExpand]_vars

\* no character of s is white space
NoSpaceIn(s) == \A i \in 1..Len(s) : ~IsSpace(Char(s, i))

\* every character of s is white space
AllSpace(s) == \A i \in 1..Len(s) : IsSpace(Char(s, i))

\* the ways to read the trimmed input t as a first token, the white space
\* after it and a remainder that starts with a visible character: the pairs
\* <<i, j>> with token t[1..i], white space t[i+1..j] and remainder t[j+1..]
Splits(t) ==
    {ij \in (1..Len(t)) \X (1..Len(t)) :
        /\ ij[1] <= ij[2]
        /\ NoSpaceIn(SubSeq(t, 1, ij[1]))
        /\ AllSpace(SubSeq(t, ij[1] + 1, ij[2]))
        /\ (ij[1] < Len(t) => ij[2] > ij[1])
        /\ (ij[2] < Len(t) => ~IsSpace(Char(t, ij[2] + 1)))}

\* C13: when the first token of the input is a known alias, expand_alias
\* returns the alias template, a single space and the remainder of the input,
\* trimmed; the result is returned as it is even when its own first token
\* names another alias.
C13_ExpandsFirstTokenOnce ==
    lastCall.op = "expand_alias"
    => \A ij \in Splits(Strip(lastCall.name)) :
          SubSeq(Strip(lastCall.name), 1, ij[1]) \in DOMAIN aliases
          => lastCall.msg =
                Strip(aliases[SubSeq(Strip(lastCall.name), 1, ij[1])].command
                      \o " "
                      \o SubSeq(Strip(lastCall.name), ij[2] + 1,
                                Len(Strip(lastCall.name))))

\* "la x y" was expanded to "ll -a x y", whose first token is again an alias
C13_Witness ==
    /\ lastCall.op = "expand_alias"
    /\ lastCall.name = "la x y"
    /\ lastCall.msg = "ll -a x y"
    /\ "ll" \in DOMAIN aliases
    /\ "la" \in DOMAIN aliases

\* the first token of x is the name of an alias
FirstTokenIsAlias(x) ==
    \E ij \in Splits(Strip(x)) : SubSeq(Strip(x), 1, ij[1]) \in DOMAIN aliases

\* C14: when the first token of x is not an alias name (or x has no token),
\* expand_alias returns x unchanged, and expanding what it returned returns
\* the same again.
C14_NonAliasInputUnchanged ==
    (lastCall.op = "expand_alias" /\ ~FirstTokenIsAlias(lastCall.name))
    => /\ lastCall.msg = lastCall.name
       /\ expand_alias(aliases, lastCall.msg) = lastCall.msg

\* an input with blanks around a token that is not an alias was expanded on a
\* table that holds aliases
C14_Witness ==
    /\ lastCall.op = "expand_alias"
    /\ lastCall.name = " ls -l "
    /\ DOMAIN aliases # {}

---------------------------------------------------------------------------
(* The persisted-history specification *)

\* append_history calls explored (more than the cap)
MaxAppends == 103

\* what earlier sessions appended: nothing, two records, or one less than the cap
EarlierRecords ==
    {<<>>,
     <<HistoryEntry(0, "list files", "ls"), HistoryEntry(0, "where am i", "pwd")>>,
     [i \in 1..(MAX_HISTORY - 1) |-> HistoryEntry(0, "list files", "ls")]}

\* the history file those sessions left, as append_history writes it
WrittenFile(h) == [exists |-> TRUE, lines |-> [i \in 1..Len(h) |-> JsonLine(h[i])]]

\* the same file after a line of it was damaged
DamagedFile(h) ==
    [exists |-> TRUE,
     lines |-> <<JsonLine(h[1]), BrokenLine>> \o [i \in 1..(Len(h) - 1) |-> JsonLine(h[i + 1])]]

\* what the user asked for and what was run
HistoryPairs == {<<"show the tmp directory", "ls /tmp">>}

InitHistoryFile ==
    /\ pc = "prompt"
    /\ user_input = ""
    /\ command = ""
    /\ commandBound = FALSE
    /\ error_analysis = ""
    /\ command_history = <<>>
    /\ cwd = Home
    /\ result = Res("empty", "")
    /\ log = <<>>
    /\ depth = 0
    /\ nInputs = 0
    /\ accepted = <<>>
    /\ line = ""
    /\ aliases = EmptyTable
    /\ aliasFile = EmptyTable
    /\ clock = 1
    /\ nCalls = 0
    /\ lastCall = NoCall
    /\ files = NoFiles
    /\ \E h \in EarlierRecords :
          /\ appended = h
          /\ historyFile \in
                IF h = <<>> THEN {NoHistoryFile, WrittenFile(h)}
                ELSE {WrittenFile(h), DamagedFile(h)}
    /\ config = EmptyConfig
    /\ keyring = EmptyKeyring
    /\ migration = NoMigration
    /\ atEntry = NoEntry

NextHistoryFile ==
    \E p \in HistoryPairs, t \in {clock + 1} :
        nCalls < MaxAppends /\ append_history(p[1], p[2], t)

SpecHistoryFile == InitHistoryFile /\ [][NextHistoryFile]_vars

\* C20: after any (non-empty) sequence of append_history calls the history
\* file holds at most 100 lines, every line is a record with timestamp,
\* natural_language and shell_command, and the records are the most recently
\* appended ones, oldest first; get_last_n_history returns the most recent of
\* them, most recent last.
C20_HistoryFileIsLastHundred ==
    lastCall.op = "append_history"
    => /\ historyFile.exists
       /\ Len(historyFile.lines) <= 100
       /\ Len(historyFile.lines) = IF Len(appended) < 100 THEN Len(appended) ELSE 100
       /\ \A i \in 1..Len(historyFile.lines) :
             /\ historyFile.lines[i].kind = "json"
             /\ DOMAIN historyFile.lines[i].value
                   = {"timestamp", "natural_language", "shell_command"}
             /\ historyFile.lines[i].value
                   = appended[Len(appended) - Len(historyFile.lines) + i]
       /\ \A i \in 1..Len(get_last_n_history(10)) :
             get_last_n_history(10)[i]
                = appended[Len(appended) - Len(get_last_n_history(10)) + i]

\* more records were appended than the file may hold, and the file holds the
\* last hundred: its first record is not the first one appended
C20_Witness ==
    /\ lastCall.op = "append_history"
    /\ Len(appended) > 100
    /\ Len(historyFile.lines) = 100
    /\ historyFile.lines[1].value.timestamp > 0
    /\ appended[1].timestamp = 0


---------------------------------------------------------------------------
(* The failure specification: lines that fail, interrupts, the end of input *)

\* lines read in one explored session
MaxSessionInputs == 2

\* lines typed at the prompt: the ways to leave, alias commands that succeed,
\* fail validation, cannot be tokenised or import the document above, direct
\* commands that fail to expand, to change directory or to start, a request
\* that names an unreadable file, and a request that is translated
SessionInputs ==
    {"QUIT", "exit", "alias add g ls", "alias add 1a ls", "alias add g \"ls",
     "alias import ~/a.json", "!nc -l", "!cd /nope", "!nosuchprogram",
     "read secret.bin", "list files"}

\* replies of the command-translation role: a command, and the text
\* Node.__call__ returns when the provider call raises
SessionGatewayOutputs == {"ls", "Error in processing: timed out"}
SessionSuggestions == {"ls"}

InitSession ==
    /\ pc = "prompt"
    /\ user_input = ""
    /\ command = ""
    /\ commandBound = FALSE
    /\ error_analysis = ""
    /\ command_history = <<>>
    /\ cwd = Home
    /\ result = Res("empty", "")
    /\ log = <<>>
    /\ depth = 0
    /\ nInputs = 0
    /\ accepted = <<>>
    /\ line = ""
    /\ aliases = LoadedAliases
    /\ aliasFile = LoadedAliases
    /\ clock = 1
    /\ nCalls = 0
    /\ lastCall = NoCall
    /\ files = [p \in FilePaths |->
                   IF p = "/home/u/a.json" THEN NoCommandBatch ELSE NoFile]
    /\ historyFile = NoHistoryFile
    /\ appended = <<>>
    /\ config = EmptyConfig
    /\ keyring = EmptyKeyring
    /\ migration = NoMigration
    /\ atEntry = NoEntry

NextSession ==
    \/ \E u \in SessionInputs, t2 \in {clock, clock + 1} :
          nInputs < MaxSessionInputs /\ main(u, t2)
    \/ \E g \in SessionGatewayOutputs : CommandExecutorReturns(g)
    \/ \E a \in BOOLEAN : ConfirmRun(a)
    \/ \E o \in ExecOutcomes(command) : ExecutorReturns(o)
    \/ \E s \in DebuggerOutputs : DebuggerReturns(s)
    \/ \E s \in SessionSuggestions : ErrorHandlerReturns(s)
    \/ \E a \in BOOLEAN : (a => depth < MaxDepth) /\ ConfirmSuggested(a)
    \/ Interrupt
    \/ EndOfInput

SpecSession == InitSession /\ [][NextSession]_vars

\* the session has ended in the orderly way: main printed the termination
\* message after a quit/exit line or after an interrupt
EndedByQuitOrInterrupt ==
    /\ Len(log) >= 1
    /\ log[Len(log)].ev = "print_terminating"
    /\ \/ Len(log) = 1 /\ Lower(line) \in {"quit", "exit"}
       \/ Len(log) >= 2 /\ log[Len(log) - 1].ev = "interrupt"

\* C15: whatever fails while a line is processed, the failure does not leave
\* the input loop: the session never ends by an exception, and when it has
\* ended it was by quit/exit or by an interrupt.
C15_FailuresAreIsolated ==
    /\ pc # "crashed"
    /\ pc = "terminated" => EndedByQuitOrInterrupt

\* the positions of the interrupts in the spy log
InterruptIdx == {i \in 1..Len(log) : log[i].ev = "interrupt"}

\* a quit or exit line, in any letter case, ended the session at once: the
\* termination message is all that happened
QuitEndsSession ==
    Lower(line) \in {"quit", "exit"}
    => /\ pc = "terminated"
       /\ log = <<Ev("print_terminating", line, TRUE, 0, "")>>

---------------------------------------------------------------------------
(* The direct-path specification: `!` lines, change-directory commands and *)
(* commands that cannot be started                                         *)

\* lines read in one explored session
MaxDirectInputs == 2

\* lines typed at the prompt
DirectInputs ==
    {"!cd", "!cd..", "!cd /tmp", "!cd /nope", "!ll /tmp", "!echo \"x", "!vi \"x",
     "!", "!ls?", "go to tmp"}

\* replies of the command-translation role
DirectGatewayOutputs == {"cd /tmp", "cd", "ls \"x"}
DirectSuggestions == {"cd /tmp"}

NextDirect ==
    \/ \E u \in DirectInputs : nInputs < MaxDirectInputs /\ ReadInput(u)
    \/ \E g \in DirectGatewayOutputs : CommandExecutorReturns(g)
    \/ \E a \in BOOLEAN : ConfirmRun(a)
    \/ \E o \in ExecOutcomes(command) : ExecutorReturns(o)
    \/ \E s \in DebuggerOutputs : DebuggerReturns(s)
    \/ \E s \in DirectSuggestions : ErrorHandlerReturns(s)
    \/ \E a \in BOOLEAN : (a => depth < MaxDepth) /\ ConfirmSuggested(a)
    \/ \E s \in Answers : QuestionAnswered(s)

SpecDirect == Init /\ [][NextDirect]_vars

\* the number of places where the one-character string ch occurs in s
CountChar(s, ch) == Cardinality({i \in 1..Len(s) : Char(s, i) = ch})

\* the Executor's returns after a subprocess call that raised
FailedSpawnIdx == {i \in 1..Len(log) : log[i].ev = "exec_return" /\ log[i].raised}

\* C16: whenever the subprocess call of the Executor raises, on the batch or on
\* the interactive branch, the Executor returns exit code 1 with the exception
\* message as stderr (for a command with an unclosed quote, the message of the
\* tokeniser), and the caller goes on with that result: no exception escapes.
C16_SpawnFailureIsExitOne ==
    /\ \A i \in FailedSpawnIdx :
          /\ log[i].code = 1
          /\ log[i].err # ""
          /\ (CountChar(log[i].text, "\"") = 1 /\ CountChar(log[i].text, "'") = 0)
             => log[i].err = "No closing quotation"
          /\ Len(log) > i
          /\ log[i + 1].ev = "debug_error"
          /\ log[i + 1].code = 1
          /\ log[i + 1].err = log[i].err
    /\ pc # "crashed"

\* a command for the interactive branch that cannot be tokenised came back
\* from the Executor
C16_Witness ==
    \E i \in FailedSpawnIdx :
        /\ log[i].ok
        /\ log[i].text = "vi \"x"
        /\ log[i].err = "No closing quotation"

\* the command is a change-directory command: its program is cd
IsChangeDirectory(c) ==
    /\ shlex_split(c).err = ""
    /\ Len(shlex_split(c).tokens) >= 1
    /\ shlex_split(c).tokens[1] = "cd"

\* C17: no change-directory command, translated or direct, is handed to a
\* subprocess: each changes the working directory of the process itself, and
\* after a successful `cd <path>` the working directory is the resolved path.
C17_CdNeverInSubprocess ==
    /\ \A i \in 1..Len(log) : log[i].ev = "exec" => ~IsChangeDirectory(log[i].text)
    /\ (Len(log) >= 1 /\ log[Len(log)].ev = "chdir" /\ log[Len(log)].ok)
       => /\ cwd \in Dirs
          /\ result = Res("changed_directory", cwd)
          /\ StartsWith(log[Len(log)].text, "/") => cwd = log[Len(log)].text

\* the input of the line as run_direct_command is to get it: the text after
\* the `!`, trimmed
DirectText(u) == Strip(SliceFrom(u, 1))

\* the positions of the direct commands printed for this line
DirectIdx == {i \in 1..Len(log) : log[i].ev = "print_direct"}

\* C18 as the spec states it: for a line that begins with `!` the
\* command-translation role is not invoked, and the command that is run is the
\* alias expansion of the line without its `!`.
C18_DirectLineBypassesTranslation ==
    StartsWith(line, "!")
    => /\ \A i \in 1..Len(log) : log[i].ev # "ask_translation"
       /\ \A i \in DirectIdx : log[i].text = expand_alias(aliases, DirectText(line))

\* C18 amended: for a line that begins with `!` and does not end with `?`, the
\* first command is run without the command-translation role: it is the alias
\* expansion of the line without its `!`, where `cd..` is first read as
\* `cd ..`; the translation role is invoked for such a line only after the
\* user has accepted a correction suggested for a failure.  A line that
\* begins with `!` and ends with `?` is answered as a question and runs
\* nothing.
C18_DirectLineRunsExpansionFirst ==
    StartsWith(line, "!")
    => IF EndsWith(line, "?")
       THEN /\ DirectIdx = {}
            /\ Len(log) >= 1 /\ log[1].ev = "answer_question"
       ELSE /\ \E i \in DirectIdx :
                 /\ i <= 2
                 /\ \A j \in 1..(i - 1) : log[j].ev = "print_expanded"
                 /\ log[i].text =
                       expand_alias(aliases,
                                    IF DirectText(line) = "cd.." THEN "cd .."
                                    ELSE DirectText(line))
            /\ \A k \in 1..Len(log) :
                  log[k].ev = "ask_translation"
                  => \E j \in 1..(k - 1) :
                        log[j].ev = "confirm_suggested" /\ log[j].ok

\* the line `!cd..` has changed the working directory to the parent
C18_Witness ==
    /\ line = "!cd.."
    /\ pc = "prompt"
    /\ cwd = "/home"
    /\ \E i \in DirectIdx : log[i].text = "cd .."

---------------------------------------------------------------------------
(* Write-through persistence of the alias table *)

\* C21: persistence is write-through: every add_alias, remove_alias or
\* import_aliases call that changes the in-memory alias mapping writes it to
\* the persisted document before it returns, so after any sequence of such
\* calls the persisted document equals the in-memory mapping.
C21_WriteThrough ==
    /\ aliasFile = aliases
    /\ (lastCall.op \in {"add_alias", "remove_alias", "import_aliases"}
            /\ aliases # lastCall.preAliases)
       => aliasFile = aliases

---------------------------------------------------------------------------
(* secure_storage: set_api_key and migrate_config_keys *)

\* the provider list of migrate_config_keys (lines 36-39), in its order
providers ==
    <<"GROQ", "OPENAI", "GOOGLE", "ANTHROPIC", "FIREWORKS", "OPENROUTER", "DEEPSEEK">>

\* SECURE_STORAGE_PLACEHOLDER (line 6), without its leading lock sign
SECURE_STORAGE_PLACEHOLDER == "SECURE_STORAGE"

\* key = f"{provider}_API_KEY"
KeyOf(provider) == provider \o "_API_KEY"

\* a set_api_key that reports success whatever the keyring did
set_api_key_ReportsSuccess(kr, provider, api_key, failing) ==
    [ok |-> TRUE,
     keyring |-> IF provider \in failing THEN kr ELSE Put(kr, provider, api_key)]

\* set_api_key(provider, api_key) on the keyring kr: keyring.set_password
\* raises for the providers in failing; the except clause prints and returns
\* False
set_api_key(kr, provider, api_key, failing) ==
    IF provider \in failing
    THEN [ok |-> FALSE, keyring |-> kr]
    ELSE [ok |-> TRUE, keyring |-> Put(kr, provider, api_key)]

\* one iteration of the loop of migrate_config_keys (lines 42-48)
MigrateProvider(st, provider, failing) ==
    LET key == KeyOf(provider)
    IN  IF key \notin DOMAIN st.config \/ st.config[key] = ""
           \/ st.config[key] = SECURE_STORAGE_PLACEHOLDER
        THEN st
        ELSE LET stored == set_api_key(st.keyring, provider, st.config[key], failing)
             IN  IF stored.ok
                 THEN [config |-> [st.config EXCEPT ![key] = SECURE_STORAGE_PLACEHOLDER],
                       keyring |-> stored.keyring,
                       migrated |-> TRUE]
                 ELSE [st EXCEPT !.keyring = stored.keyring]

RECURSIVE MigrateLoop(_, _, _)
\* the loop of migrate_config_keys over the providers q
MigrateLoop(st, q, failing) ==
    IF q = <<>> THEN st
    ELSE MigrateLoop(MigrateProvider(st, Head(q), failing), Tail(q), failing)

\* migrate_config_keys(config), with the keyring refusing the providers in
\* failing; the dict is changed in place and the flag returned
migrate_config_keys(failing) ==
    /\ LET done == MigrateLoop([config |-> config, keyring |-> keyring,
                                migrated |-> FALSE], providers, failing)
       IN  /\ config' = done.config
           /\ keyring' = done.keyring
           /\ migration' = [done |-> TRUE, pre |-> config, failing |-> failing,
                            returned |-> done.migrated]
    /\ nCalls' = nCalls + 1
    /\ UNCHANGED <<aliases, aliasFile, clock, lastCall, files, histVars, wfVars>>

---------------------------------------------------------------------------
(* The migration specification *)

\* migrate_config_keys calls explored
MaxMigrations == 2

\* the entries a config can have: three provider keys and one other key, each
\* absent, empty, already the placeholder, or a plaintext value
ConfigKeys == {"GROQ_API_KEY", "OPENAI_API_KEY", "DEEPSEEK_API_KEY", "OTHER_KEY"}
ConfigValues == {"", SECURE_STORAGE_PLACEHOLDER, "sk-1"}
Configs == UNION {[D -> ConfigValues] : D \in SUBSET ConfigKeys}

\* the providers the keyring can refuse to store
FailingProviders == {"GROQ", "OPENAI", "DEEPSEEK"}

InitMigrate ==
    /\ pc = "prompt"
    /\ user_input = ""
    /\ command = ""
    /\ commandBound = FALSE
    /\ error_analysis = ""
    /\ command_history = <<>>
    /\ cwd = Home
    /\ result = Res("empty", "")
    /\ log = <<>>
    /\ depth = 0
    /\ nInputs = 0
    /\ accepted = <<>>
    /\ line = ""
    /\ aliases = EmptyTable
    /\ aliasFile = EmptyTable
    /\ clock = 1
    /\ nCalls = 0
    /\ lastCall = NoCall
    /\ files = NoFiles
    /\ historyFile = NoHistoryFile
    /\ appended = <<>>
    /\ config \in Configs
    /\ keyring = EmptyKeyring
    /\ migration = NoMigration
    /\ atEntry = NoEntry

NextMigrate ==
    \E failing \in SUBSET FailingProviders :
        nCalls < MaxMigrations /\ migrate_config_keys(failing)

SpecMigrate == InitMigrate /\ [][NextMigrate]_vars

\* the key names a provider API-key entry: it is a provider's name followed by
\* _API_KEY
IsProviderKey(k) == \E i \in 1..Len(providers) : k = providers[i] \o "_API_KEY"

\* the provider a provider key belongs to
ProviderOf(k) == SubSeq(k, 1, Len(k) - Len("_API_KEY"))

\* the entries the last migration had to replace: provider keys, non-empty,
\* not the placeholder, whose storage succeeded
Migratable ==
    {k \in DOMAIN migration.pre :
        /\ IsProviderKey(k)
        /\ migration.pre[k] # ""
        /\ migration.pre[k] # SECURE_STORAGE_PLACEHOLDER
        /\ ProviderOf(k) \notin migration.failing}

\* C22: migrate_config_keys replaces with the placeholder exactly the provider
\* API-key entries that are non-empty, not already the placeholder, and whose
\* storage in the keyring succeeded (the keyring then holds their value);
\* every other entry, including one whose storage failed, is left unchanged,
\* and the function returns True if and only if an entry was replaced.
C22_MigratesExactlyStoredKeys ==
    migration.done
    => /\ DOMAIN config = DOMAIN migration.pre
       /\ \A k \in DOMAIN config :
             IF k \in Migratable
             THEN /\ config[k] = SECURE_STORAGE_PLACEHOLDER
                  /\ ProviderOf(k) \in DOMAIN keyring
                  /\ keyring[ProviderOf(k)] = migration.pre[k]
             ELSE config[k] = migration.pre[k]
       /\ migration.returned <=> Migratable # {}

\* one migration replaced an entry, kept another whose storage failed and kept
\* a plaintext entry that is no provider key
C22_Witness ==
    /\ migration.done
    /\ migration.returned
    /\ "GROQ_API_KEY" \in Migratable
    /\ "OPENAI" \in migration.failing
    /\ "OPENAI_API_KEY" \in DOMAIN config /\ config["OPENAI_API_KEY"] = "sk-1"
    /\ "OTHER_KEY" \in DOMAIN config /\ config["OTHER_KEY"] = "sk-1"

---------------------------------------------------------------------------
(* The transitions of the confirmation workflow *)

\* position i is the last of the log and the session waits at p
WaitsAfter(i, p) == i = Len(log) /\ pc = p

\* position i is directly followed by an event of kind e
FollowedBy(i, e) == i < Len(log) /\ log[i + 1].ev = e

\* position i ends the processing of the line with a result of kind k
EndsLine(i, k) == i = Len(log) /\ pc = "prompt" /\ result.kind = k

\* the transitions that the workflow has whatever the command: the first
\* prompt follows the proposal, a no cancels, a yes to an unmarked command
\* executes, a verified re-type executes and a failed one aborts
CommonTransitions ==
    \A i \in LogIdx :
        /\ log[i].ev = "proposed"
           => WaitsAfter(i, "confirm_run") \/ FollowedBy(i, "confirm_run")
        /\ log[i].ev = "confirm_run"
           => /\ i > 1 /\ log[i - 1].ev = "proposed"
              /\ ~log[i].ok
                 => /\ FollowedBy(i, "print_cancelled")
                    /\ EndsLine(i + 1, "empty")
              /\ (log[i].ok /\ ~StartsWith(log[i].text, Marker))
                 => FollowedBy(i, "print_command")
        /\ log[i].ev = "retype"
           => IF log[i].ok
              THEN FollowedBy(i, "print_command")
              ELSE EndsLine(i, "verification_failed")
        /\ log[i].ev = "print_command"
           => /\ i > 1
              /\ \/ log[i - 1].ev = "confirm_run" /\ log[i - 1].ok
                    /\ ~StartsWith(log[i - 1].text, Marker)
                 \/ log[i - 1].ev = "retype" /\ log[i - 1].ok

\* C23 as the spec states it: Proposed -> AwaitingConfirm -> {Cancelled |
\* AwaitingRetype (if dangerous) -> {Verified -> Executing | MismatchAborted}
\* | Executing}: a yes at AwaitingConfirm leads directly to AwaitingRetype
\* when the command is dangerous, with no other prompt in between.
C23_YesLeadsToRetype ==
    /\ CommonTransitions
    /\ \A i \in LogIdx :
          /\ (log[i].ev = "confirm_run" /\ log[i].ok
                 /\ StartsWith(log[i].text, Marker))
             => WaitsAfter(i, "retype") \/ FollowedBy(i, "retype")
          /\ log[i].ev = "retype"
             => i > 1 /\ log[i - 1].ev = "confirm_run" /\ log[i - 1].ok

\* C23 amended: Proposed -> AwaitingConfirm -> {Cancelled | AwaitingWarning
\* (if dangerous) -> {WarningAborted | AwaitingRetype -> {Verified ->
\* Executing | MismatchAborted}} | Executing}: a yes at AwaitingConfirm leads,
\* for a dangerous command, to a second yes/no prompt (the destructive
\* warning); a no there ends in "Command execution aborted.", a yes leads to
\* AwaitingRetype.  For any other command the yes leads directly to Executing.
C23_YesLeadsToWarningThenRetype ==
    /\ CommonTransitions
    /\ \A i \in LogIdx :
          /\ (log[i].ev = "confirm_run" /\ log[i].ok
                 /\ StartsWith(log[i].text, Marker))
             => WaitsAfter(i, "confirm_destructive")
                   \/ FollowedBy(i, "confirm_destructive")
          /\ log[i].ev = "confirm_destructive"
             => /\ i > 1 /\ log[i - 1].ev = "confirm_run" /\ log[i - 1].ok
                /\ StartsWith(log[i - 1].text, Marker)
                /\ IF log[i].ok
                   THEN WaitsAfter(i, "retype") \/ FollowedBy(i, "retype")
                   ELSE EndsLine(i, "aborted")
          /\ log[i].ev = "retype"
             => i > 1 /\ log[i - 1].ev = "confirm_destructive" /\ log[i - 1].ok

\* a dangerous command went through both prompts and the re-type to Executing
C23_Witness ==
    \E i \in LogIdx :
        /\ i + 4 <= Len(log)
        /\ IsMarked(i)
        /\ log[i + 1].ev = "confirm_run" /\ log[i + 1].ok
        /\ log[i + 2].ev = "confirm_destructive" /\ log[i + 2].ok
        /\ log[i + 3].ev = "retype" /\ log[i + 3].ok
        /\ log[i + 4].ev = "print_command"

---------------------------------------------------------------------------
(* The re-type verification *)

\* C24: in AwaitingRetype the verification succeeds if and only if the text the
\* user typed is identical, character for character, to the unmarked command
\* (the proposal without its marker): any difference, blanks before or after
\* it included, is a mismatch, and typing the command exactly succeeds.
C24_ExactRetypeVerifies ==
    \A i \in LogIdx : \A j \in LogIdx :
        (IsMarked(i) /\ RetypeOf(i, j))
        => (log[j].ok <=> log[j].text = Strip(MarkerRemoved(i)))

---------------------------------------------------------------------------
(* The frame of the terminal states that do not execute *)

\* the processing of the line has ended in Cancelled, in the refusal of the
\* destructive warning, or in MismatchAborted
EndedWithoutExecuting ==
    /\ pc = "prompt"
    /\ Len(log) >= 1
    /\ \/ log[Len(log)].ev = "print_cancelled"
       \/ log[Len(log)].ev = "confirm_destructive" /\ ~log[Len(log)].ok
       \/ log[Len(log)].ev = "retype" /\ ~log[Len(log)].ok

\* C25: every terminal state other than Executing is free of side effects:
\* when the workflow ends in Cancelled, in the destructive-warning abort or in
\* MismatchAborted, the in-memory command history, the working directory and
\* the alias table are what they were when the input entered the workflow,
\* and no command was run (no subprocess, no chdir) for it.
C25_AbortsHaveNoEffects ==
    EndedWithoutExecuting
    => /\ command_history = atEntry.command_history
       /\ cwd = atEntry.cwd
       /\ aliases = atEntry.aliases
       /\ \A m \in LogIdx :
             m > atEntry.at
             => log[m].ev \notin {"exec", "exec_return", "chdir", "print_command",
                                  "print_direct"}

\* a mismatch at the re-type prompt, in a session that has a command in its
\* history and has left the directory it started in
C25_Witness ==
    /\ EndedWithoutExecuting
    /\ log[Len(log)].ev = "retype"
    /\ command_history # <<>>
    /\ cwd # Home

---------------------------------------------------------------------------
(* The branch specification: which branch of the Executor a command takes *)

\* lines read in one explored session
MaxBranchInputs == 2

\* direct commands: programs of the interactive list, programs whose name
\* begins with a name of the list, and others
BranchInputs ==
    {"!vi x", "! vi x", "!sudo ls", "!top", "!ls", "!echo vi",
     "!sum x", "!view x", "!manage.py run", "!topgrade"}

NextBranch ==
    \/ \E u \in BranchInputs : nInputs < MaxBranchInputs /\ ReadInput(u)
    \/ \E o \in ExecOutcomes(command) : ExecutorReturns(o)
    \/ \E s \in DebuggerOutputs : DebuggerReturns(s)

SpecBranch == Init /\ [][NextBranch]_vars

\* the leading token of a command
LeadingToken(c) ==
    IF shlex_split(c).err = "" /\ shlex_split(c).tokens # <<>>
    THEN shlex_split(c).tokens[1]
    ELSE ""

\* C26: the Executor takes the interactive branch if and only if the leading
\* token of the command is a member of the fixed interactive-program set; a
\* command whose leading token merely begins with such a name runs on the
\* batch branch.
C26_InteractiveIffLeadingTokenListed ==
    \A i \in LogIdx :
        log[i].ev = "exec"
        => (log[i].ok <=> LeadingToken(log[i].text) \in interactive_commands)

---------------------------------------------------------------------------
(* The invariant of the alias table *)

\* C27: after any sequence of add_alias, import_aliases and remove_alias calls
\* starting from an empty table, every alias in the in-memory table has a name
\* matching the identifier pattern and a command template that contains no
\* denylisted substring.
C27_TableHoldsOnlyValidAliases ==
    \A n \in DOMAIN aliases :
        /\ MatchesIdentifierPattern(n)
        /\ ~Denylisted(GetCommand(aliases[n]))

\* an import and an add_alias have filled the table, and the batch had an
\* entry with an invalid name and an entry with a denylisted command
C27_Witness ==
    /\ {"ok1", "ok2", "g"} \subseteq DOMAIN aliases
    /\ \E i \in 1..Len(MixedBatch.entries) :
          /\ Denylisted(GetCommand(MixedBatch.entries[i].value.v))
          /\ MixedBatch.entries[i].name \notin DOMAIN aliases
    /\ \E i \in 1..Len(MixedBatch.entries) :
          /\ ~MatchesIdentifierPattern(MixedBatch.entries[i].name)
          /\ MixedBatch.entries[i].name \notin DOMAIN aliases

---------------------------------------------------------------------------
(* Failures of the Provider Gateway *)

\* the text Node.__call__ returns when the call failed (node.py, lines 72-73
\* and 78-79)
IsGatewayError(t) ==
    StartsWith(t, "Error in processing:") \/ t = "Unsupported provider."

\* C28: when the Provider Gateway call for command translation fails, the
\* error text it returns is never presented as a command proposal and is never
\* handed to the Executor.
C28_GatewayErrorIsNotACommand ==
    \A i \in LogIdx :
        log[i].ev \in {"proposed", "confirm_run", "print_command", "exec"}
        => ~IsGatewayError(log[i].text)

---------------------------------------------------------------------------
(* The alias-run specification: aliases made at the prompt and run with `!` *)

\* lines read in one explored session
MaxAliasRunInputs == 2

\* lines typed at the prompt: alias commands that build the table, and direct
\* commands that start with an alias name, with and without arguments
AliasRunInputs ==
    {"alias add r rm -rf", "alias add w rm -rf /", "alias import ~/a.json",
     "!r /", "!r /tmp/x", "!w", "!ok1 /tmp", "!ls"}

NextAliasRun ==
    \/ \E u \in AliasRunInputs : nInputs < MaxAliasRunInputs /\ ReadInput(u)
    \/ \E o \in ExecOutcomes(command) : ExecutorReturns(o)
    \/ \E s \in DebuggerOutputs : DebuggerReturns(s)

SpecAliasRun == InitPorting /\ [][NextAliasRun]_vars

\* C29: for an alias table built only by add_alias and import_aliases, no
\* command that results from alias expansion on the direct `!` path and is
\* handed to the Executor contains a denylisted substring, whatever arguments
\* the user appends after the alias name.
C29_ExpansionNeverDenylisted ==
    \A i \in LogIdx :
        (/\ log[i].ev = "exec"
         /\ log[i].err = "direct"
         /\ StartsWith(line, "!")
         /\ FirstTokenIsAlias(DirectText(line)))
        => ~Denylisted(log[i].text)

---------------------------------------------------------------------------
(* What is confirmed is what is run *)

\* the positions of the yes answers to a yes/no prompt
YesIdx ==
    {j \in LogIdx : /\ log[j].ev \in {"confirm_run", "confirm_destructive",
                                      "confirm_suggested"}
                    /\ log[j].ok}

\* the last yes before position k (0: none)
LastYes(k) ==
    IF \E j \in YesIdx : j < k
    THEN CHOOSE j \in YesIdx : j < k /\ \A m \in YesIdx : m < k => m <= j
    ELSE 0

\* the positions at which a command was handed to the Executor after a yes
ConfirmedExecIdx == {k \in LogIdx : log[k].ev = "exec" /\ LastYes(k) # 0}

\* C30 as the spec states it: whenever a command is run after a confirmation
\* prompt (a suggested fix accepted in handle_error included), the command
\* handed to the Executor is identical to the command text displayed in the
\* last confirmation the user answered yes to.
C30_RunsWhatWasConfirmed ==
    \A k \in ConfirmedExecIdx : log[k].text = log[LastYes(k)].text

\* C30 amended: the command handed to the Executor is identical to the text
\* displayed in the last prompt answered yes when that was the run prompt or
\* the destructive warning.  When the last yes accepted a suggested fix, the
\* suggestion begins with `!` and is run without a further prompt: the
\* command is then the alias expansion of the suggestion without its `!`
\* (`cd..` read as `cd ..`).  A suggestion that does not begin with `!` is
\* translated again and shown in a new run prompt before anything is run.
C30_RunsConfirmedOrExpandedSuggestion ==
    \A k \in ConfirmedExecIdx :
        IF log[LastYes(k)].ev = "confirm_suggested"
        THEN /\ StartsWith(log[LastYes(k)].text, "!")
             /\ log[k].text =
                   expand_alias(aliases,
                                IF DirectText(log[LastYes(k)].text) = "cd.."
                                THEN "cd .."
                                ELSE DirectText(log[LastYes(k)].text))
        ELSE log[k].text = log[LastYes(k)].text

\* the accepted suggestion `!ll /tmp` was run as `ls -l /tmp`
C30_Witness ==
    \E k \in ConfirmedExecIdx :
        /\ log[LastYes(k)].ev = "confirm_suggested"
        /\ log[LastYes(k)].text = "!ll /tmp"
        /\ log[k].text = "ls -l /tmp"
===========================================================================
